---------------------------- MODULE Spec2Model ----------------------------
(***************************************************************************)
(* A model of the Spade tree-walking interpreter (punwai/spade).           *)
(*                                                                         *)
(*   - Environment (src/src/environment.rs): a stack of scopes.            *)
(*   - Evaluator   (src/src/evaluate.rs): evaluate_statement,              *)
(*     evaluate_function, evaluate_expression, evaluate_binary.            *)
(*   - Interpreter (src/src/interpreter.rs): interpret / execute.          *)
(*   - Parser      (src/src/tree.rs): parse, parse_stmt.                   *)
(*   - Scanner     (src/src/token.rs): scan_tokens.                        *)
(*   - Printer     (src/src/expressions.rs): Display of expressions.       *)
(*                                                                         *)
(* The specifications share the variables:                                 *)
(*   SpecEnv   : the Environment API driven by arbitrary operation          *)
(*               sequences                                                 *)
(*   Spec      : an Interpreter executing top-level statements             *)
(*   SpecEval  : single evaluations in a fresh environment                 *)
(*   SpecParse : token vectors parsed by tree.rs, and run when they parse  *)
(*   SpecScan  : sources scanned by token.rs, and expressions printed,     *)
(*               scanned and parsed again                                  *)
(***************************************************************************)
EXTENDS Integers, Sequences, FiniteSets, TLC

VARIABLES
    env,      \* Environment.stack: a sequence of scopes, innermost last
    out,      \* standard output: the lines printed so far
    result,   \* what the last operation returned
    log,      \* history of the last executed top-level statement
    last,     \* the last operation performed and the environment before it
    nexec     \* number of operations performed so far

vars == <<env, out, result, log, last, nexec>>

---------------------------------------------------------------------------
(* Bounds *)

MaxScopes == 3      \* SpecEnv: greatest depth of the scope stack
MaxOps == 5         \* SpecEnv: greatest number of Environment operations
MaxExec == 3        \* Spec: greatest number of top-level statements executed
MaxCallDepth == 3   \* Spec: call nesting after which the host stack overflows
MaxExprTokens == 5  \* SpecParse: longest token vector given to parse
MaxStmtTokens == 4  \* SpecParse: longest token vector given to parse_stmt
MaxPieces == 3      \* SpecScan: greatest number of pieces of a source
MaxPrintDepth == 2  \* SpecScan: greatest nesting of a printed expression

---------------------------------------------------------------------------
(* Values (evaluate.rs, enum Value) and results *)

Nil == [t |-> "Nil"]
Bool(b) == [t |-> "Bool", b |-> b]
\* A Number is an f64; the model keeps it as a normalised fraction num/den.
Number(n) == [t |-> "Number", num |-> n, den |-> 1]
String(s) == [t |-> "String", s |-> s]
\* SpadeFn carries parameters and body only.  def is history: the ids of the
\* scopes that were lexically visible where the function was declared.
Function(parameters, body, def) ==
    [t |-> "Function", parameters |-> parameters, body |-> body, def |-> def]

Ok(v) == [k |-> "Ok", v |-> v]
RuntimeError(message, line) == [k |-> "RuntimeError", message |-> message, line |-> line]
ReturnSignal(v) == [k |-> "Return", v |-> v]
\* unimplemented!() / unreachable!() abort the process
Panic(message) == [k |-> "Panic", message |-> message]
\* unbounded recursion exhausts the host stack
StackOverflow == [k |-> "StackOverflow"]

---------------------------------------------------------------------------
(* Environment (environment.rs) *)

EmptyScope == << >>

Environment_new == << EmptyScope >>

new_child(e) == Append(e, EmptyScope)

\* Vec::pop: removes the last scope, whichever it is; no-op on an empty Vec
pop(e) == IF Len(e) = 0 THEN e ELSE SubSeq(e, 1, Len(e) - 1)

insert(scope, name, value) ==
    [n \in (DOMAIN scope) \cup {name} |-> IF n = name THEN value ELSE scope[n]]

define(e, name, value) ==
    IF Len(e) > 0 THEN [e EXCEPT ![Len(e)] = insert(e[Len(e)], name, value)]
    ELSE e

UndefinedVariable(name) == "Undefined variable '" \o name \o "'."

\* index of the scope the reversed iteration stops at, 0 when it runs out
RECURSIVE find_scope_outermost(_, _, _)
find_scope_outermost(e, i, name) ==
    IF i > Len(e) THEN 0
    ELSE IF name \in DOMAIN e[i] THEN i
    ELSE find_scope_outermost(e, i + 1, name)

RECURSIVE find_scope_rev(_, _, _)
find_scope_rev(e, i, name) ==
    IF i = 0 THEN 0
    ELSE IF name \in DOMAIN e[i] THEN i
    ELSE find_scope_rev(e, i - 1, name)

find_scope_first(e, name) == find_scope_outermost(e, 1, name)
find_scope(e, name) == find_scope_rev(e, Len(e), name)

\* Result<Value, String>
get(e, name) ==
    LET i == find_scope(e, name)
    IN  IF i # 0 THEN [k |-> "Ok", v |-> e[i][name]]
        ELSE [k |-> "Err", message |-> UndefinedVariable(name)]

\* Result<(), String> together with the environment after the call
assign_or_define(e, name, value) ==
    LET i == find_scope(e, name)
    IN  IF i # 0
        THEN [r |-> [k |-> "Ok"], env |-> [e EXCEPT ![i] = insert(e[i], name, value)]]
        ELSE [r |-> [k |-> "Err", message |-> UndefinedVariable(name)],
              env |-> define(e, name, value)]
assign(e, name, value) ==
    LET i == find_scope(e, name)
    IN  IF i # 0
        THEN [r |-> [k |-> "Ok"], env |-> [e EXCEPT ![i] = insert(e[i], name, value)]]
        ELSE [r |-> [k |-> "Err", message |-> UndefinedVariable(name)], env |-> e]

---------------------------------------------------------------------------
(* AST (expressions.rs; Call, Fn and Return as evaluate.rs matches them) *)

None == << >>
Some(x) == << x >>

Lit_Nil == [e |-> "Literal", l |-> "Nil"]
Lit_Bool(b) == [e |-> "Literal", l |-> "Bool", b |-> b]
Lit_Number(n) == [e |-> "Literal", l |-> "Number", n |-> n]
Lit_String(s) == [e |-> "Literal", l |-> "String", s |-> s]
\* Literal::Var(token): the identifier token, of which lexeme and line are read
Var(lexeme) == [e |-> "Literal", l |-> "Var", lexeme |-> lexeme, line |-> 1]
Binary(left, op, right) == [e |-> "Binary", left |-> left, op |-> op, right |-> right]
Unary(op, expr) == [e |-> "Unary", op |-> op, expr |-> expr]
Grouping(expr) == [e |-> "Grouping", expr |-> expr]
Assign(lexeme, value) == [e |-> "Assign", lexeme |-> lexeme, value |-> value]
Call(callee, arguments) == [e |-> "Call", callee |-> callee, arguments |-> arguments]

S_Expression(expr) == [s |-> "Expression", expr |-> expr]
S_Print(expr) == [s |-> "Print", expr |-> expr]
S_Return(expr) == [s |-> "Return", expr |-> expr]
S_Block(statements) == [s |-> "Block", statements |-> statements]
S_VarDec(name, initializer) == [s |-> "VarDec", name |-> name, initializer |-> initializer]
S_If(condition, then_branch, else_branch) ==
    [s |-> "If", condition |-> condition, then_branch |-> then_branch,
     else_branch |-> else_branch]
S_Fn(name, parameters, body) ==
    [s |-> "Fn", name |-> name, parameters |-> parameters, body |-> body]

---------------------------------------------------------------------------
(* Numbers: f64 kept as a fraction in lowest terms with a positive den.     *)
(* Exact for the small integers and binary fractions the programs below    *)
(* compute; rounding, infinities, NaN and the sign of zero are left out.   *)

Abs(n) == IF n < 0 THEN -n ELSE n

RECURSIVE GCD(_, _)
GCD(a, b) == IF b = 0 THEN a ELSE GCD(b, a % b)

Frac(num, den) ==
    LET g == GCD(Abs(num), Abs(den))
        sgn == IF den < 0 THEN -1 ELSE 1
    IN  [t |-> "Number", num |-> sgn * (num \div g), den |-> sgn * (den \div g)]

\* the decimal digits of rem/den after the point, at most k of them
RECURSIVE FracDigits(_, _, _)
FracDigits(rem, den, k) ==
    IF rem = 0 \/ k = 0 THEN ""
    ELSE ToString((rem * 10) \div den) \o FracDigits((rem * 10) % den, den, k - 1)

\* {:?} of an f64: always shows a fractional part
F64Debug(v) ==
    LET a == Abs(v.num)
    IN  (IF v.num < 0 THEN "-" ELSE "") \o ToString(a \div v.den) \o "." \o
        (IF a % v.den = 0 THEN "0" ELSE FracDigits(a % v.den, v.den, 17))

\* println!("{:?}", val): the derived Debug form of Value.  The fields of a
\* SpadeFn are not spelled out.
DebugFmt(v) ==
    CASE v.t = "Nil" -> "Nil"
      [] v.t = "Bool" -> "Bool(" \o (IF v.b THEN "true" ELSE "false") \o ")"
      [] v.t = "Number" -> "Number(" \o F64Debug(v) \o ")"
      [] v.t = "String" -> "String(\"" \o v.s \o "\")"
      [] v.t = "Function" -> "Function(SpadeFn)"

\* Interpreter::stringify (interpreter.rs): `{:.0}` of a number without a
\* fractional part, its Display form otherwise.  The fields of a SpadeFn are
\* not spelled out.
stringify(v) ==
    CASE v.t = "Nil" -> "nil"
      [] v.t = "Bool" -> IF v.b THEN "true" ELSE "false"
      [] v.t = "Number" ->
           IF v.den = 1 THEN ToString(v.num)
           ELSE (IF v.num < 0 THEN "-" ELSE "") \o ToString(Abs(v.num) \div v.den)
                \o "." \o FracDigits(Abs(v.num) % v.den, v.den, 17)
      [] v.t = "String" -> v.s
      [] v.t = "Function" -> "fn SpadeFn"

\* impl Display for BinaryOp (expressions.rs)
BinaryOp_fmt(op) ==
    CASE op = "Multiply" -> "*" [] op = "Divide" -> "/"
      [] op = "Plus" -> "+" [] op = "Minus" -> "-"
      [] op = "Greater" -> ">" [] op = "GreaterEqual" -> ">="
      [] op = "Less" -> "<" [] op = "LessEqual" -> "<="
      [] op = "NotEqual" -> "!=" [] op = "EqualEqual" -> "=="
      [] op = "And" -> "and" [] op = "Or" -> "or"

---------------------------------------------------------------------------
(* Evaluator (evaluate.rs) *)

is_truthy_zero_false(v) ==
    CASE v.t = "Nil" -> FALSE
      [] v.t = "Bool" -> v.b
      [] v.t = "Number" -> v.num # 0
      [] OTHER -> TRUE
is_truthy(v) ==
    CASE v.t = "Nil" -> FALSE
      [] v.t = "Bool" -> v.b
      [] OTHER -> TRUE

literal_to_value(literal) ==
    CASE literal.l = "Nil" -> Nil
      [] literal.l = "Bool" -> Bool(literal.b)
      [] literal.l = "Number" -> Number(literal.n)
      [] literal.l = "String" -> String(literal.s)

\* lines 197-206: the Divide arm
divide_zero_first(left, right) ==
    IF right.t = "Number" /\ right.num = 0 THEN RuntimeError("Division by zero", 0)
    ELSE IF left.t = "Number" /\ right.t = "Number"
         THEN Ok(Frac(left.num * right.den, left.den * right.num))
    ELSE RuntimeError("Invalid operands for /", 0)
divide(left, right) ==
    IF left.t = "Number" /\ right.t = "Number"
    THEN IF right.num = 0 THEN RuntimeError("Division by zero", 0)
         ELSE Ok(Frac(left.num * right.den, left.den * right.num))
    ELSE RuntimeError("Invalid operands for /", 0)

\* line 208: the arm of every other operator
unsupported_but_equality(left, op, right) ==
    IF op = "EqualEqual" THEN Ok(Bool(left = right))
    ELSE RuntimeError("Unsupported binary operator", 0)
unsupported(left, op, right) == RuntimeError("Unsupported binary operator", 0)

evaluate_binary(left, op, right) ==
    LET both == left.t = "Number" /\ right.t = "Number"
    IN  CASE op = "Plus" ->
               IF both THEN Ok(Frac(left.num * right.den + right.num * left.den,
                                    left.den * right.den))
               ELSE RuntimeError("Invalid operands for +", 0)
          [] op = "Minus" ->
               IF both THEN Ok(Frac(left.num * right.den - right.num * left.den,
                                    left.den * right.den))
               ELSE RuntimeError("Invalid operands for -", 0)
          [] op = "Multiply" ->
               IF both THEN Ok(Frac(left.num * right.num, left.den * right.den))
               ELSE RuntimeError("Invalid operands for *", 0)
          [] op = "Divide" -> divide(left, right)
          [] OTHER -> unsupported(left, op, right)

\* The world an evaluation runs in: standard output, and the history of what
\* was executed (read only by the properties).
Emit(w, ev) == [w EXCEPT !.log = Append(@, ev)]

\* `let x = v;` followed by code that uses x: v is computed once
Bind(v, F(_)) == CHOOSE y \in {F(x) : x \in {v}} : TRUE
Write(w, line) == [w EXCEPT !.out = Append(@, line)]

\* Where an evaluation stands in the source, kept beside the environment
\* (read only by the properties):
\*   depth  number of function invocations in progress
\*   sids   the id of every scope of the environment, parallel to the stack
\*   lex    the ids of the scopes that enclose the code lexically
\*   blk    the id of the scope of the innermost enclosing block
\*   ctx    "body" inside statements, "arg" inside a call's argument list
\*   nest   number of Block and If statements entered in this invocation
TopLevel == [depth |-> 0, sids |-> << 0 >>, lex |-> {0}, blk |-> 0,
             ctx |-> "body", nest |-> 0]

\* lines 110-114: the match on the body's result
consume_return_leaky(r) == r
consume_return(r) ==
    CASE r.k = "Ok" -> Ok(r.v)
      [] r.k = "Return" -> Ok(r.v)
      [] OTHER -> r

\* lines 71-76: the Block runs on `let mut env = Environment::new_child(env)`,
\* a copy that shadows the caller's env; it is popped on the normal path and
\* dropped on every path, so the caller's env is what it was.
block_caller_env_shared(outer, inner, r) ==
    IF r.k = "Ok" THEN pop(inner) ELSE inner
block_caller_env(outer, inner, r) == outer

\* line 101: the arity check
arity_ok_atmost(fun, arguments) == Len(arguments) <= Len(fun.parameters)
arity_ok(fun, arguments) == Len(fun.parameters) = Len(arguments)

RECURSIVE evaluate_statement(_, _, _, _)
RECURSIVE evaluate_expression(_, _, _, _)
RECURSIVE evaluate_function(_, _, _, _, _)
RECURSIVE exec_statements(_, _, _, _, _)
RECURSIVE bind_arguments(_, _, _, _, _, _, _)

\* lines 72-74: for statement in statements { evaluate_statement(..)?; }
exec_statements(statements, i, e, w, g) ==
    IF i > Len(statements) THEN [r |-> Ok(Nil), env |-> e, w |-> w]
    ELSE Bind(evaluate_statement(statements[i], e, w, g), LAMBDA s :
           IF s.r.k # "Ok" THEN s
           ELSE exec_statements(statements, i + 1, s.env, s.w, g))

evaluate_statement(stmt, e, w0, g) ==
    LET w == Emit(w0, [ev |-> "stmt", s |-> stmt.s, depth |-> g.depth, blk |-> g.blk])
        done ==
    CASE stmt.s = "Expression" ->
           Bind(evaluate_expression(stmt.expr, e, w, g), LAMBDA x :
             IF x.r.k # "Ok" THEN [r |-> x.r, env |-> e, w |-> x.w]
             ELSE [r |-> Ok(Nil), env |-> e, w |-> x.w])
      [] stmt.s = "Fn" ->
           [r |-> Ok(Nil),
            env |-> define(e, stmt.name, Function(stmt.parameters, stmt.body, g.lex)),
            w |-> w]
      [] stmt.s = "Print" ->
           Bind(evaluate_expression(stmt.expr, e, w, g), LAMBDA x :
             IF x.r.k # "Ok" THEN [r |-> x.r, env |-> e, w |-> x.w]
             ELSE [r |-> Ok(Nil), env |-> e,
                   w |-> Write(Emit(x.w, [ev |-> "print", v |-> x.r.v]),
                               DebugFmt(x.r.v))])
      [] stmt.s = "Return" ->
           IF stmt.expr # None
           THEN Bind(evaluate_expression(stmt.expr[1], e, w, g), LAMBDA x :
                  IF x.r.k # "Ok" THEN [r |-> x.r, env |-> e, w |-> x.w]
                  ELSE [r |-> ReturnSignal(x.r.v), env |-> e,
                        w |-> Emit(x.w, [ev |-> "return", signal |-> TRUE, v |-> x.r.v,
                                         depth |-> g.depth, nest |-> g.nest])])
           ELSE [r |-> Ok(Nil), env |-> e,
                 w |-> Emit(w, [ev |-> "return", signal |-> FALSE, v |-> Nil,
                                depth |-> g.depth, nest |-> g.nest])]
      [] stmt.s = "Block" ->
           LET sid == Len(w.log) + 1
               inner == new_child(e)
               gb == [g EXCEPT !.sids = Append(@, sid), !.lex = @ \cup {sid},
                               !.blk = sid, !.nest = @ + 1]
           IN  Bind(exec_statements(stmt.statements, 1, inner,
                                    Emit(w, [ev |-> "blockenter", sid |-> sid]), gb),
                    LAMBDA b :
                 LET after == block_caller_env(e, b.env, b.r)
                     wx == Emit(b.w, [ev |-> "blockexit", sid |-> sid, how |-> b.r.k,
                                      before |-> e, after |-> after,
                                      declared |-> DOMAIN b.env[Len(b.env)]])
                 IN  IF b.r.k # "Ok" THEN [r |-> b.r, env |-> after, w |-> wx]
                     ELSE [r |-> Ok(Nil), env |-> after, w |-> wx])
      [] stmt.s = "VarDec" ->
           Bind(IF stmt.initializer # None
                THEN evaluate_expression(stmt.initializer[1], e, w, g)
                ELSE [r |-> Ok(Nil), w |-> w], LAMBDA x :
             IF x.r.k # "Ok" THEN [r |-> x.r, env |-> e, w |-> x.w]
             ELSE [r |-> Ok(Nil), env |-> define(e, stmt.name, x.r.v),
                   w |-> Emit(x.w, [ev |-> "vardec", name |-> stmt.name, v |-> x.r.v,
                                    blk |-> g.blk])])
      [] stmt.s = "If" ->
           Bind(evaluate_expression(stmt.condition, e, w, g), LAMBDA x :
             LET gi == [g EXCEPT !.nest = @ + 1]
                 wi == Emit(x.w, [ev |-> "if", c |-> x.r.v])
             IN  IF x.r.k # "Ok" THEN [r |-> x.r, env |-> e, w |-> x.w]
                 ELSE IF is_truthy(x.r.v)
                      THEN evaluate_statement(stmt.then_branch, e, wi, gi)
                 ELSE IF stmt.else_branch # None
                      THEN evaluate_statement(stmt.else_branch[1], e, wi, gi)
                 ELSE [r |-> Ok(Nil), env |-> e, w |-> wi])
    IN  Bind(done, LAMBDA d :
             [d EXCEPT !.w = Emit(@, [ev |-> "stmtend", s |-> stmt.s, k |-> d.r.k,
                                      depth |-> g.depth, blk |-> g.blk])])

\* lines 105-108: each argument is evaluated in env, which line 100 made the
\* callee's new scope, and then bound in it; caller is the environment of the
\* call expression (kept for the history only).
bind_arguments(fun, arguments, i, e, w, g, caller) ==
    IF i > Len(arguments) THEN [r |-> Ok(Nil), env |-> e, w |-> w]
    ELSE Bind(evaluate_expression(arguments[i], e, w, g), LAMBDA x :
           LET wa == Emit(x.w, [ev |-> "arg", k |-> i, expr |-> arguments[i],
                                caller |-> caller, depth |-> g.depth, r |-> x.r,
                                sid |-> g.sids[Len(g.sids)]])
           IN  IF x.r.k # "Ok" THEN [r |-> x.r, env |-> e, w |-> wa]
               ELSE bind_arguments(fun, arguments, i + 1,
                                   define(e, fun.parameters[i], x.r.v), wa, g, caller))

evaluate_function(fun, arguments, e, w, g) ==
    IF g.depth >= MaxCallDepth THEN [r |-> StackOverflow, w |-> w]
    ELSE
    LET sid == Len(w.log) + 1
        callee == new_child(e)
        wc == Emit(w, [ev |-> "call", sid |-> sid, depth |-> g.depth + 1,
                       nparams |-> Len(fun.parameters), nargs |-> Len(arguments)])
    IN  IF ~arity_ok(fun, arguments)
        THEN [r |-> RuntimeError("Expected number of arguments to match number of parameters", 0),
              w |-> wc]
        ELSE LET ga == [g EXCEPT !.sids = Append(@, sid), !.ctx = "arg"]
                 gf == [depth |-> g.depth + 1, sids |-> Append(g.sids, sid),
                        lex |-> fun.def \cup {sid}, blk |-> sid,
                        ctx |-> "body", nest |-> 0]
             IN  Bind(bind_arguments(fun, arguments, 1, callee, wc, ga, e), LAMBDA a :
                   IF a.r.k # "Ok" THEN [r |-> a.r, w |-> a.w]
                   ELSE Bind(evaluate_statement(fun.body, a.env, a.w, gf), LAMBDA b :
                          [r |-> consume_return(b.r),
                           w |-> Emit(b.w, [ev |-> "callend", sid |-> sid,
                                            depth |-> g.depth + 1,
                                            r |-> consume_return(b.r)])]))

\* No arm writes to env: a Call works on a copy (line 100).
evaluate_expression(expr, e, w, g) ==
    CASE expr.e = "Binary" ->
           LET done(l, r, res) ==
                   [r |-> res,
                    w |-> Emit(IF l.r.k = "Ok" THEN r.w ELSE l.w,
                               [ev |-> "binary", op |-> expr.op, l |-> l.r,
                                r |-> IF l.r.k = "Ok" THEN r.r ELSE [k |-> "NotEvaluated"],
                                res |-> res])]
           IN  Bind(evaluate_expression(expr.left, e, w, g), LAMBDA l :
                 IF l.r.k # "Ok" THEN done(l, l, l.r)
                 ELSE Bind(evaluate_expression(expr.right, e, l.w, g), LAMBDA r :
                        IF r.r.k # "Ok" THEN done(l, r, r.r)
                        ELSE done(l, r, evaluate_binary(l.r.v, expr.op, r.r.v))))
      [] expr.e = "Unary" ->
           LET apply(val) ==
                   IF expr.op = "Minus"
                   THEN IF val.t = "Number"
                        THEN Ok(Frac(-val.num, val.den))
                        ELSE RuntimeError("Invalid operand for unary -", 0)
                   ELSE CASE val.t = "Bool" -> Ok(Bool(~val.b))
                          [] val.t = "Nil" -> Ok(Bool(TRUE))
                          [] OTHER -> Ok(Bool(FALSE))
           IN  Bind(evaluate_expression(expr.expr, e, w, g), LAMBDA x :
                 IF x.r.k # "Ok" THEN x
                 ELSE [r |-> apply(x.r.v),
                       w |-> Emit(x.w, [ev |-> "unary", op |-> expr.op, v |-> x.r.v,
                                        res |-> apply(x.r.v)])])
      [] expr.e = "Literal" ->
           IF expr.l = "Var"
           THEN LET got == get(e, expr.lexeme)
                    i == find_scope(e, expr.lexeme)
                    r == IF got.k = "Ok" THEN Ok(got.v)
                         ELSE RuntimeError(got.message, expr.line)
                IN  [r |-> r,
                     w |-> Emit(w, [ev |-> "read", name |-> expr.lexeme, r |-> r,
                                    sid |-> IF i = 0 THEN -1 ELSE g.sids[i],
                                    lex |-> g.lex, blk |-> g.blk, ctx |-> g.ctx,
                                    depth |-> g.depth])]
           ELSE [r |-> Ok(literal_to_value(expr)), w |-> w]
      [] expr.e = "Call" ->
           Bind(evaluate_expression(expr.callee, e, w, g), LAMBDA c :
             IF c.r.k # "Ok" THEN c
             ELSE Bind(IF c.r.v.t = "Function"
                       THEN evaluate_function(c.r.v, expr.arguments, e, c.w, g)
                       ELSE [r |-> RuntimeError("Expected function", 0), w |-> c.w],
                       LAMBDA x :
                         [x EXCEPT !.w = Emit(@, [ev |-> "callexpr", t |-> c.r.v.t,
                                                  sid |-> Len(c.w.log) + 1,
                                                  r |-> x.r])]))
      [] expr.e = "Grouping" -> evaluate_expression(expr.expr, e, w, g)
      [] OTHER -> [r |-> Panic("not implemented"), w |-> w]

---------------------------------------------------------------------------
(* SpecEnv: the Environment API under arbitrary operation sequences *)

Names == {"x", "y"}
EnvValues == {Nil, Number(1), Number(2)}

NoOp == [op |-> "none"]

Init ==
    /\ env = Environment_new
    /\ out = << >>
    /\ result = [k |-> "Ok"]
    /\ log = << >>
    /\ last = NoOp
    /\ nexec = 0

EnvNewChild ==
    /\ nexec < MaxOps
    /\ Len(env) < MaxScopes
    /\ env' = new_child(env)
    /\ result' = [k |-> "Ok"]
    /\ last' = [op |-> "new_child", before |-> env]
    /\ nexec' = nexec + 1
    /\ UNCHANGED <<out, log>>

EnvPop ==
    /\ nexec < MaxOps
    /\ env' = pop(env)
    /\ result' = [k |-> "Ok"]
    /\ last' = [op |-> "pop", before |-> env]
    /\ nexec' = nexec + 1
    /\ UNCHANGED <<out, log>>

EnvDefine ==
    /\ nexec < MaxOps
    /\ \E name \in Names, value \in EnvValues :
        /\ env' = define(env, name, value)
        /\ result' = [k |-> "Ok"]
        /\ last' = [op |-> "define", name |-> name, value |-> value, before |-> env]
    /\ nexec' = nexec + 1
    /\ UNCHANGED <<out, log>>

EnvGet ==
    /\ nexec < MaxOps
    /\ \E name \in Names :
        /\ result' = get(env, name)
        /\ last' = [op |-> "get", name |-> name, before |-> env]
    /\ nexec' = nexec + 1
    /\ UNCHANGED <<env, out, log>>

EnvAssign ==
    /\ nexec < MaxOps
    /\ \E name \in Names, value \in EnvValues :
        /\ env' = assign(env, name, value).env
        /\ result' = assign(env, name, value).r
        /\ last' = [op |-> "assign", name |-> name, value |-> value, before |-> env]
    /\ nexec' = nexec + 1
    /\ UNCHANGED <<out, log>>

NextEnv == EnvNewChild \/ EnvPop \/ EnvDefine \/ EnvGet \/ EnvAssign

SpecEnv == Init /\ [][NextEnv]_vars

---------------------------------------------------------------------------
(* Spec: an Interpreter (interpreter.rs) executing top-level statements *)

\* The statements handed to the interpreter, as the parser builds them
\* (a function body is always a Block).
TopStmts ==
    LET n(i) == Lit_Number(i)
        call(f, args) == Call(Var(f), args)
        body(stmts) == S_Block(stmts)
    IN  { S_VarDec("x", Some(n(1))),
          S_VarDec("y", Some(n(2))),
          S_VarDec("x", None),
          S_Print(Var("x")),
          S_Print(Var("y")),
          S_Print(Binary(Var("x"), "Plus", Var("y"))),
          S_Fn("f", << >>, body(<< S_Print(Var("y")) >>)),
          S_Fn("g", <<"x", "b">>, body(<< S_Return(Some(Var("b"))) >>)),
          S_Fn("h", << >>, body(<< S_Return(None), S_Print(n(1)) >>)),
          S_Fn("k", << >>,
               body(<< S_Block(<< S_If(Lit_Bool(TRUE),
                                       S_Block(<< S_Return(Some(n(2))) >>), None),
                                  S_Print(n(3)) >>),
                       S_Print(n(4)) >>)),
          S_Fn("o", << >>,
               body(<< S_VarDec("y", Some(call("k", << >>))),
                       S_Print(Var("y")),
                       S_Return(Some(Binary(Var("y"), "Divide", n(4)))) >>)),
          S_Fn("r", << >>, body(<< S_Expression(call("r", << >>)) >>)),
          S_Block(<< S_VarDec("y", Some(n(5))), S_Expression(call("f", << >>)) >>),
          S_Block(<< S_VarDec("x", Some(n(1))),
                     S_Print(call("g", << n(5), Var("x") >>)) >>),
          S_Print(call("g", << n(5), Var("x") >>)),
          S_Print(call("g", << n(5) >>)),
          S_Print(call("h", << >>)),
          S_Print(call("k", << >>)),
          S_Print(call("o", << >>)),
          S_Expression(call("r", << >>)),
          S_Expression(call("x", << >>)),
          S_Return(None),
          S_Return(Some(n(1))),
          S_Block(<< S_VarDec("x", Some(n(2))), S_Print(Var("x")) >>),
          S_Block(<< S_VarDec("y", Some(n(2))), S_Print(Var("x")) >>),
          S_Block(<< S_Block(<< S_VarDec("x", Some(n(0))) >>),
                     S_Fn("f", << >>, body(<< >>)),
                     S_Print(call("o", << >>)),
                     S_Print(Var("z")) >>),
          S_If(Var("x"), S_Print(Lit_String("t")), Some(S_Print(Lit_String("f")))),
          S_Expression(Assign("x", n(1))) }

\* execute (lines 24-30): the mapping of evaluate_statement's result
execute_result(r) ==
    CASE r.k = "Ok" -> [k |-> "Ok"]
      [] r.k = "RuntimeError" ->
           [k |-> "Err", message |-> r.message \o " at line " \o ToString(r.line)]
      [] r.k = "Return" -> Panic("unreachable")
      [] OTHER -> r

\* line 19: `self.execute(statement)?` goes on to the next statement only
\* after an Ok
may_continue_always(r) == TRUE
may_continue(r) == r.k = "Ok"

\* interpret (lines 17-22): one turn of the loop, which `?` leaves at the
\* first error
Execute ==
    /\ nexec < MaxExec
    /\ may_continue(result)
    /\ \E stmt \in TopStmts :
         LET s == evaluate_statement(stmt, env, [out |-> out, log |-> << >>], TopLevel)
         IN  /\ env' = s.env
             /\ out' = s.w.out
             /\ log' = s.w.log
             /\ result' = execute_result(s.r)
             /\ last' = [op |-> "execute", stmt |-> stmt, before |-> env,
                          outBefore |-> out]
    /\ nexec' = nexec + 1

Next == Execute

Spec == Init /\ [][Next]_vars

---------------------------------------------------------------------------
(* SpecEval: one expression or statement evaluated in a fresh environment,
   the way the unit tests of evaluate.rs call the evaluator *)

\* the environments of an evaluation: a global scope where x is bound to a
\* value of each variant, or to nothing; u is never bound
EvalValues ==
    {Nil, Bool(TRUE), Bool(FALSE), Number(0), Number(2), String(""), String("a"),
     Function(<< >>, S_Block(<< S_Return(Some(Lit_Number(2))) >>), {0})}
EvalEnvs ==
    {Environment_new} \cup {define(Environment_new, "x", v) : v \in EvalValues}

BinaryOps ==
    {"Multiply", "Divide", "Plus", "Minus", "Greater", "GreaterEqual", "Less",
     "LessEqual", "NotEqual", "EqualEqual", "And", "Or"}
UnaryOps == {"Minus", "Not"}

Operands ==
    {Lit_Nil, Lit_Bool(TRUE), Lit_Bool(FALSE), Lit_Number(0), Lit_Number(3),
     Lit_String("a"), Var("x"), Var("u"), Unary("Minus", Lit_String("a")),
     Call(Var("x"), << >>)}

EvalExprs ==
    Operands
    \cup {Unary(op, a) : op \in UnaryOps, a \in Operands}
    \cup {Unary("Not", Unary("Not", a)) : a \in Operands}
    \cup {Grouping(a) : a \in Operands}
    \cup {Binary(a, op, b) : a \in Operands, op \in BinaryOps, b \in Operands}
    \cup {Binary(Grouping(Binary(Lit_Number(3), "Plus", Lit_Number(4))),
                 "Multiply", Lit_Number(2)),
          Binary(Lit_Number(1), "Divide", Binary(Lit_Number(3), "Minus", Lit_Number(3))),
          Binary(Lit_Number(3), "Divide", Lit_Number(4)),
          Assign("x", Lit_Number(1)),
          Call(Var("x"), << Lit_Number(1) >>)}

PrintExprs ==
    Operands
    \cup {Binary(Grouping(Binary(Lit_Number(3), "Plus", Lit_Number(4))),
                 "Multiply", Lit_Number(2)),
          Binary(Lit_Number(3), "Plus", Binary(Lit_Number(4), "Multiply", Lit_Number(2))),
          Binary(Lit_Number(3), "Divide", Lit_Number(4)),
          Unary("Minus", Lit_Number(3)), Lit_String("")}

EvalStmts ==
    {S_Print(a) : a \in PrintExprs}
    \cup {S_If(c, S_Print(Lit_String("t")), else_branch) :
            c \in Operands \cup {Unary("Not", a) : a \in Operands},
            else_branch \in {None, Some(S_Print(Lit_String("f")))}}

\* evaluate_expression(expr, &mut env) on a fresh environment
EvaluateExpr ==
    /\ last = NoOp
    /\ \E e \in EvalEnvs, expr \in EvalExprs :
         LET x == evaluate_expression(expr, e, [out |-> << >>, log |-> << >>], TopLevel)
         IN  /\ env' = e /\ out' = x.w.out /\ log' = x.w.log
             /\ result' = execute_result(x.r)
             /\ last' = [op |-> "evaluate", expr |-> expr, before |-> e, r |-> x.r]
    /\ UNCHANGED nexec

\* evaluate_statement(stmt, &mut env) on a fresh environment
EvaluateStmt ==
    /\ last = NoOp
    /\ \E e \in EvalEnvs, stmt \in EvalStmts :
         LET s == evaluate_statement(stmt, e, [out |-> << >>, log |-> << >>], TopLevel)
         IN  /\ env' = s.env /\ out' = s.w.out /\ log' = s.w.log
             /\ result' = execute_result(s.r)
             /\ last' = [op |-> "statement", stmt |-> stmt, before |-> e, r |-> s.r]
    /\ UNCHANGED nexec

NextEval == EvaluateExpr \/ EvaluateStmt

SpecEval == Init /\ [][NextEval]_vars

---------------------------------------------------------------------------
(* Parser (tree.rs): recursive descent over a vector of tokens.  A parser
   state p is the struct Parser, with the lines its println! calls write to
   standard output; every method takes the state self, called p once it is
   known, and gives back its result and the parser state it leaves. *)

\* token.rs, struct Token
Token(token_type, lexeme, literal) ==
    [token_type |-> token_type, lexeme |-> lexeme, literal |-> literal, line |-> 1]

ParseError(message) == [k |-> "Err", message |-> message]

Parser_new(tokens) == [tokens |-> tokens, current |-> 0, out |-> << >>]
is_at_end(p) == p.current >= Len(p.tokens)
peek(p) == p.tokens[p.current + 1]
previous(p) == p.tokens[p.current]
advance(p) == IF ~is_at_end(p) THEN [p EXCEPT !.current = @ + 1] ELSE p
check(p, token_type) == ~is_at_end(p) /\ peek(p).token_type = token_type
match_token(p, types) ==
    IF \E t \in types : check(p, t) THEN [b |-> TRUE, p |-> advance(p)]
    ELSE [b |-> FALSE, p |-> p]
consume(p, types, error_message) ==
    LET m == match_token(p, types)
    IN  IF ~m.b THEN [r |-> ParseError(error_message), p |-> m.p]
        ELSE [r |-> Ok(previous(m.p)), p |-> m.p]
println(p, line) == [p EXCEPT !.out = Append(@, line)]

\* the `match self.previous().token_type` of each level
operator_of(token_type) ==
    CASE token_type = "BangEqual" -> "NotEqual"
      [] token_type = "EqualEqual" -> "EqualEqual"
      [] token_type = "Greater" -> "Greater"
      [] token_type = "GreaterEqual" -> "GreaterEqual"
      [] token_type = "Less" -> "Less"
      [] token_type = "LessEqual" -> "LessEqual"
      [] token_type = "Minus" -> "Minus"
      [] token_type = "Plus" -> "Plus"
      [] token_type = "Slash" -> "Divide"
      [] token_type = "Star" -> "Multiply"

RECURSIVE expression(_)
RECURSIVE equality(_)
RECURSIVE equality_loop(_, _)
RECURSIVE comparison(_)
RECURSIVE comparison_loop(_, _)
RECURSIVE term(_)
RECURSIVE term_loop(_, _)
RECURSIVE term_loop_right(_, _)
RECURSIVE factor(_)
RECURSIVE factor_loop(_, _)
RECURSIVE unary(_)
RECURSIVE call(_)
RECURSIVE call_loop(_, _)
RECURSIVE end_arguments(_, _)
RECURSIVE primary(_)

expression(p) == equality(p)

\* the while loop of equality: expr is the tree built so far
equality_loop(self, expr) ==
    Bind(self, LAMBDA p :
      LET m == match_token(p, {"BangEqual", "EqualEqual"})
      IN  IF ~m.b THEN [r |-> Ok(expr), p |-> p]
          ELSE Bind(comparison(m.p), LAMBDA right :
                 IF right.r.k # "Ok" THEN right
                 ELSE equality_loop(right.p,
                          Binary(expr, operator_of(previous(m.p).token_type), right.r.v))))

equality(self) ==
    Bind(self, LAMBDA p :
      Bind(comparison(println(p, "got to equality")), LAMBDA x :
        IF x.r.k # "Ok" THEN x ELSE equality_loop(x.p, x.r.v)))

comparison_loop(self, expr) ==
    Bind(self, LAMBDA p :
      LET m == match_token(p, {"Greater", "GreaterEqual", "Less", "LessEqual"})
      IN  IF ~m.b THEN [r |-> Ok(expr), p |-> p]
          ELSE Bind(term(m.p), LAMBDA right :
                 IF right.r.k # "Ok" THEN right
                 ELSE comparison_loop(right.p,
                          Binary(expr, operator_of(previous(m.p).token_type), right.r.v))))

comparison(self) ==
    Bind(self, LAMBDA p :
      Bind(term(println(p, "got to comparison")), LAMBDA x :
        IF x.r.k # "Ok" THEN x ELSE comparison_loop(x.p, x.r.v)))

term_loop_right(self, expr) ==
    Bind(self, LAMBDA p :
      LET m == match_token(p, {"Minus", "Plus"})
      IN  IF ~m.b THEN [r |-> Ok(expr), p |-> p]
          ELSE Bind(term(m.p), LAMBDA right :
                 IF right.r.k # "Ok" THEN right
                 ELSE [r |-> Ok(Binary(expr, operator_of(previous(m.p).token_type),
                                       right.r.v)),
                       p |-> right.p]))
term_loop(self, expr) ==
    Bind(self, LAMBDA p :
      LET m == match_token(p, {"Minus", "Plus"})
      IN  IF ~m.b THEN [r |-> Ok(expr), p |-> p]
          ELSE Bind(factor(m.p), LAMBDA right :
                 IF right.r.k # "Ok" THEN right
                 ELSE term_loop(right.p,
                          Binary(expr, operator_of(previous(m.p).token_type), right.r.v))))

term(self) ==
    Bind(self, LAMBDA p :
      Bind(factor(println(p, "got to term")), LAMBDA x :
        IF x.r.k # "Ok" THEN x ELSE term_loop(x.p, x.r.v)))

factor_loop(self, expr) ==
    Bind(self, LAMBDA p :
      LET m == match_token(p, {"Slash", "Star"})
      IN  IF ~m.b THEN [r |-> Ok(expr), p |-> p]
          ELSE Bind(unary(m.p), LAMBDA right :
                 IF right.r.k # "Ok" THEN right
                 ELSE factor_loop(right.p,
                          Binary(expr, operator_of(previous(m.p).token_type), right.r.v))))

factor(self) ==
    Bind(self, LAMBDA p :
      Bind(unary(println(p, "got to factor")), LAMBDA x :
        IF x.r.k # "Ok" THEN x ELSE factor_loop(x.p, x.r.v)))

unary(self) ==
    Bind(self, LAMBDA p :
      LET q == println(p, "got to unary")
          m == match_token(q, {"Bang", "Minus"})
      IN  IF m.b
          THEN Bind(unary(m.p), LAMBDA right :
                 IF right.r.k # "Ok" THEN right
                 ELSE [r |-> Ok(Unary(IF previous(m.p).token_type = "Bang"
                                      THEN "Not" ELSE "Minus", right.r.v)),
                       p |-> right.p])
          ELSE call(q))

primary(self) ==
    Bind(self, LAMBDA p :
      LET m == match_token(p, {"False", "True", "Nil", "Number", "Identifier",
                               "String", "LeftParen"})
          t == previous(m.p)
      IN  IF ~m.b THEN [r |-> ParseError("Expect expression"), p |-> p]
          ELSE CASE t.token_type = "False" -> [r |-> Ok(Lit_Bool(FALSE)), p |-> m.p]
                 [] t.token_type = "True" -> [r |-> Ok(Lit_Bool(TRUE)), p |-> m.p]
                 [] t.token_type = "Nil" -> [r |-> Ok(Lit_Nil), p |-> m.p]
                 [] t.token_type = "Number" ->
                      IF t.literal # None /\ t.literal[1].l = "Number"
                      THEN [r |-> Ok(Lit_Number(t.literal[1].n)),
                            p |-> println(m.p, "got to number match")]
                      ELSE [r |-> ParseError("Number token without number literal"),
                            p |-> println(m.p, "got to number match")]
                 [] t.token_type = "Identifier" ->
                      [r |-> Ok([e |-> "Literal", l |-> "Var", lexeme |-> t.lexeme,
                                 line |-> t.line]),
                       p |-> m.p]
                 [] t.token_type = "String" ->
                      IF t.literal # None /\ t.literal[1].l = "String"
                      THEN [r |-> Ok(Lit_String(t.literal[1].s)), p |-> m.p]
                      ELSE [r |-> ParseError("String token without string literal"),
                            p |-> m.p]
                 [] t.token_type = "LeftParen" ->
                      Bind(expression(m.p), LAMBDA x :
                        IF x.r.k # "Ok" THEN x
                        ELSE IF ~match_token(x.p, {"RightParen"}).b
                             THEN [r |-> ParseError("Expect ')' after expression"),
                                   p |-> x.p]
                        ELSE [r |-> Ok(Grouping(x.r.v)),
                              p |-> match_token(x.p, {"RightParen"}).p]))

\* the while loop of end_arguments: arguments is the vector built so far
end_arguments(self, arguments) ==
    Bind(self, LAMBDA p :
      IF ~is_at_end(p) /\ ~check(p, "RightParen")
      THEN Bind(expression(p), LAMBDA x :
             IF x.r.k # "Ok" THEN x
             ELSE IF match_token(x.p, {"Comma"}).b
                  THEN end_arguments(match_token(x.p, {"Comma"}).p,
                                     Append(arguments, x.r.v))
             ELSE LET c == consume(x.p, {"RightParen"}, "Expect ')' after arguments")
                  IN  IF c.r.k # "Ok" THEN c
                      ELSE [r |-> Ok(Append(arguments, x.r.v)), p |-> c.p])
      ELSE LET c == consume(p, {"RightParen"}, "Expect ')' after arguments")
           IN  IF c.r.k # "Ok" THEN c ELSE [r |-> Ok(arguments), p |-> c.p])

call_loop(self, expr) ==
    Bind(self, LAMBDA p :
      LET m == match_token(p, {"LeftParen"})
      IN  IF ~m.b THEN [r |-> Ok(expr), p |-> p]
          ELSE Bind(end_arguments(m.p, << >>), LAMBDA a :
                 IF a.r.k # "Ok" THEN a
                 ELSE call_loop(a.p, Call(expr, a.r.v))))

call(self) ==
    Bind(self, LAMBDA p :
      Bind(primary(p), LAMBDA x :
        IF x.r.k # "Ok" THEN x ELSE call_loop(x.p, x.r.v)))

\* pub fn parse
parse(tokens) == expression(Parser_new(tokens))

RECURSIVE statement(_)
RECURSIVE block(_, _)
RECURSIVE block_statement(_)
RECURSIVE if_statement(_)
RECURSIVE fn_statement(_)

print_statement(self) ==
    Bind(self, LAMBDA p :
      Bind(expression(p), LAMBDA x :
        IF x.r.k # "Ok" THEN x
        ELSE LET c == consume(x.p, {"Semicolon"}, "Expect ';' after value.")
             IN  IF c.r.k # "Ok" THEN c ELSE [r |-> Ok(S_Print(x.r.v)), p |-> c.p]))

expression_statement(self) ==
    Bind(self, LAMBDA p :
      Bind(expression(p), LAMBDA x :
        IF x.r.k # "Ok" THEN x
        ELSE LET c == consume(x.p, {"Semicolon"}, "Expect ';' after value.")
             IN  IF c.r.k # "Ok" THEN c ELSE [r |-> Ok(S_Expression(x.r.v)), p |-> c.p]))

var_declaration(self) ==
    Bind(self, LAMBDA p :
      LET name == consume(p, {"Identifier"}, "'let' assignment must be provided a name")
          eq == consume(name.p, {"Equal"}, "'let' assignment must be followed by '='")
          semi == match_token(eq.p, {"Semicolon"})
      IN  IF name.r.k # "Ok" THEN name
          ELSE IF eq.r.k # "Ok" THEN eq
          ELSE IF semi.b THEN [r |-> Ok(S_VarDec(name.r.v.lexeme, None)), p |-> semi.p]
          ELSE Bind(expression(eq.p), LAMBDA x :
                 IF x.r.k # "Ok" THEN x
                 ELSE LET c == consume(x.p, {"Semicolon"},
                                       "Delaration must end with semicolon")
                      IN  IF c.r.k # "Ok" THEN c
                          ELSE [r |-> Ok(S_VarDec(name.r.v.lexeme, Some(x.r.v))),
                                p |-> c.p]))

\* the while loop of block: statements is the vector built so far
block(self, statements) ==
    Bind(self, LAMBDA p :
      IF ~is_at_end(p) /\ ~check(p, "RightBrace")
      THEN Bind(statement(p), LAMBDA x :
             IF x.r.k # "Ok" THEN x ELSE block(x.p, Append(statements, x.r.v)))
      ELSE [r |-> Ok(statements), p |-> p])

block_statement(self) ==
    Bind(self, LAMBDA p :
      Bind(block(p, << >>), LAMBDA x :
        IF x.r.k # "Ok" THEN x
        ELSE LET c == consume(x.p, {"RightBrace"}, "Expect '}' after block")
             IN  IF c.r.k # "Ok" THEN c ELSE [r |-> Ok(S_Block(x.r.v)), p |-> c.p]))

if_statement(self) ==
    Bind(self, LAMBDA p :
      LET lp == consume(p, {"LeftParen"}, "Expect '(' after 'if'")
      IN  IF lp.r.k # "Ok" THEN lp
          ELSE Bind(expression(lp.p), LAMBDA condition :
            IF condition.r.k # "Ok" THEN condition
            ELSE LET rp == consume(condition.p, {"RightParen"}, "Expect ')' after condition")
                 IN  IF rp.r.k # "Ok" THEN rp
                     ELSE Bind(statement(rp.p), LAMBDA then_branch :
                       IF then_branch.r.k # "Ok" THEN then_branch
                       ELSE LET m == match_token(then_branch.p, {"Else"})
                            IN  IF ~m.b
                                THEN [r |-> Ok(S_If(condition.r.v, then_branch.r.v, None)),
                                      p |-> m.p]
                                ELSE Bind(statement(m.p), LAMBDA else_branch :
                                       IF else_branch.r.k # "Ok" THEN else_branch
                                       ELSE [r |-> Ok(S_If(condition.r.v, then_branch.r.v,
                                                           Some(else_branch.r.v))),
                                             p |-> else_branch.p]))))

\* the while loop of fn_statement: parameters is the vector built so far
RECURSIVE fn_parameters(_, _)
fn_parameters(self, parameters) ==
    Bind(self, LAMBDA p :
      IF ~is_at_end(p) /\ ~check(p, "RightParen")
      THEN LET c == consume(p, {"Identifier"}, "Expect parameter name")
               m == match_token(c.p, {"Comma"})
           IN  IF c.r.k # "Ok" THEN c
               ELSE IF m.b THEN fn_parameters(m.p, Append(parameters, c.r.v.lexeme))
               ELSE [r |-> Ok(Append(parameters, c.r.v.lexeme)), p |-> m.p]
      ELSE [r |-> Ok(parameters), p |-> p])

fn_statement(self) ==
    Bind(self, LAMBDA p :
      LET name == consume(p, {"Identifier"}, "Expect function name")
          lp == consume(name.p, {"LeftParen"}, "Expect '(' after function name")
          parameters == fn_parameters(lp.p, << >>)
          rp == consume(parameters.p, {"RightParen"}, "Expect ')' after parameters")
      IN  IF name.r.k # "Ok" THEN name
          ELSE IF lp.r.k # "Ok" THEN lp
          ELSE IF parameters.r.k # "Ok" THEN parameters
          ELSE IF rp.r.k # "Ok" THEN rp
          ELSE Bind(block_statement(rp.p), LAMBDA body :
                 IF body.r.k # "Ok" THEN body
                 ELSE [r |-> Ok(S_Fn(name.r.v.lexeme, parameters.r.v, body.r.v)),
                       p |-> body.p]))

return_statement(self) ==
    Bind(self, LAMBDA p :
      LET m == match_token(p, {"Semicolon"})
      IN  IF m.b THEN [r |-> Ok(S_Return(None)), p |-> m.p]
          ELSE Bind(expression(p), LAMBDA x :
                 IF x.r.k # "Ok" THEN x
                 ELSE LET c == consume(x.p, {"Semicolon"}, "Expect ';' after return value")
                      IN  IF c.r.k # "Ok" THEN c
                          ELSE [r |-> Ok(S_Return(Some(x.r.v))), p |-> c.p]))

statement(self) ==
    Bind(self, LAMBDA p :
      LET m == match_token(p, {"Print", "Let", "LeftBrace", "If", "Fn", "Return"})
          t == previous(m.p).token_type
      IN  IF ~m.b THEN expression_statement(p)
          ELSE CASE t = "Print" -> print_statement(m.p)
                 [] t = "Let" -> var_declaration(m.p)
                 [] t = "LeftBrace" -> block_statement(m.p)
                 [] t = "If" -> if_statement(m.p)
                 [] t = "Fn" -> fn_statement(m.p)
                 [] t = "Return" -> return_statement(m.p))

\* the while loop of Parser::parse_stmt
RECURSIVE parse_stmt_loop(_, _)
parse_stmt_loop(self, statements) ==
    Bind(self, LAMBDA p :
      IF ~is_at_end(p)
      THEN Bind(statement(p), LAMBDA x :
             IF x.r.k # "Ok" THEN x ELSE parse_stmt_loop(x.p, Append(statements, x.r.v)))
      ELSE [r |-> Ok(statements), p |-> p])

\* pub fn parse_stmt
parse_stmt(tokens) == parse_stmt_loop(Parser_new(tokens), << >>)

---------------------------------------------------------------------------
(* SpecParse: token vectors handed to the parser, and to the interpreter
   when they parse, the way the tests of tree.rs and interpreter.rs do *)

SeqsUpTo(S, n) == UNION {[1..k -> S] : k \in 0..n}

\* token.rs, enum Literal
TokenLiteral_Number(n) == [l |-> "Number", n |-> n]

\* the value of the k-th Number token of a vector
NumberAt(k) == CASE k = 1 -> 3 [] k = 2 -> 4 [] k = 3 -> 2 [] OTHER -> k + 1

\* the tokens of a vector of token types: Number tokens are numbered from the
\* left, every identifier is x
TokensOf(types) ==
    [i \in 1..Len(types) |->
        CASE types[i] = "Number" ->
               LET n == NumberAt(Cardinality({j \in 1..i : types[j] = "Number"}))
               IN  Token("Number", ToString(n), Some(TokenLiteral_Number(n)))
          [] types[i] = "Identifier" -> Token("Identifier", "x", None)
          [] OTHER -> Token(types[i], "", None)]

ExprTokenTypes == {"Number", "Plus", "Minus", "Star", "Less", "EqualEqual", "Bang"}
StmtTokenTypes == {"Let", "Identifier", "Equal", "Semicolon", "Number", "Print"}

\* longer vectors: an opening token without its closing one, and a `,` with
\* nothing after it, in a call, a parameter list, a block and an if
LongStmtVectors ==
    {<< "Identifier", "LeftParen", "Number", "Comma", "RightParen", "Semicolon" >>,
     << "Identifier", "LeftParen", "Number", "Comma", "Number", "RightParen",
        "Semicolon" >>,
     << "Identifier", "LeftParen", "Number", "Semicolon" >>,
     << "Fn", "Identifier", "LeftParen", "Identifier", "Comma", "RightParen",
        "LeftBrace", "RightBrace" >>,
     << "Fn", "Identifier", "LeftParen", "Identifier", "RightParen",
        "LeftBrace", "RightBrace" >>,
     << "Fn", "Identifier", "LeftParen", "Identifier", "Comma", "RightParen",
        "RightBrace" >>,
     << "Fn", "Identifier", "LeftParen", "Identifier", "RightParen",
        "Print", "Number", "Semicolon", "RightBrace" >>,
     << "Fn", "Identifier", "LeftParen", "Identifier", "LeftBrace", "RightBrace" >>,
     << "Fn", "LeftParen", "RightParen", "LeftBrace", "RightBrace" >>,
     << "Fn", "Identifier", "LeftParen", "Comma", "RightParen", "LeftBrace",
        "RightBrace" >>,
     << "LeftBrace", "Print", "Number", "Semicolon" >>,
     << "LeftBrace", "Print", "Number", "Semicolon", "RightBrace" >>,
     << "If", "LeftParen", "Number", "Print", "Number", "Semicolon" >>,
     << "If", "LeftParen", "Number", "RightParen", "Print", "Number", "Semicolon" >>,
     << "Print", "LeftParen", "Number", "Semicolon" >>,
     << "Return", "Number" >>}

\* Interpreter::interpret (interpreter.rs:17-22) from statement i on
RECURSIVE interpret(_, _, _, _)
interpret(statements, i, e, w) ==
    IF i > Len(statements) THEN [r |-> [k |-> "Ok"], env |-> e, w |-> w]
    ELSE Bind(evaluate_statement(statements[i], e, w, TopLevel), LAMBDA s :
           IF may_continue(execute_result(s.r))
           THEN interpret(statements, i + 1, s.env, s.w)
           ELSE [r |-> execute_result(s.r), env |-> s.env, w |-> s.w])

\* parse(tokens)
ParseExpr ==
    /\ last = NoOp
    /\ \E types \in SeqsUpTo(ExprTokenTypes, MaxExprTokens) :
         \E x \in {parse(TokensOf(types))} :
             /\ result' = x.r
             /\ out' = x.p.out
             /\ last' = [op |-> "parse", tokens |-> TokensOf(types),
                         current |-> x.p.current]
    /\ UNCHANGED <<env, log, nexec>>

\* parse_stmt(tokens), then interpret(statements) when the tokens parse
RunStmts ==
    /\ last = NoOp
    /\ \E types \in SeqsUpTo(StmtTokenTypes, MaxStmtTokens) \cup LongStmtVectors :
         \E x \in {parse_stmt(TokensOf(types))} :
             /\ last' = [op |-> "run", tokens |-> TokensOf(types), parsed |-> x.r]
             /\ IF x.r.k = "Ok"
                THEN \E i \in {interpret(x.r.v, 1, env,
                                          [out |-> x.p.out, log |-> << >>])} :
                         /\ result' = i.r /\ env' = i.env
                         /\ out' = i.w.out /\ log' = i.w.log
                ELSE /\ result' = x.r /\ out' = x.p.out
                     /\ UNCHANGED <<env, log>>
    /\ UNCHANGED nexec

NextParse == ParseExpr \/ RunStmts

SpecParse == Init /\ [][NextParse]_vars

---------------------------------------------------------------------------
(* Scanner (token.rs).  A source is the sequence of its characters, each a
   string of one character; "U+00E9" stands for a character that UTF-8
   encodes in two bytes.  source.len() and the slices source[a..b] count
   bytes, chars().nth(i) counts characters. *)

\* the byte offset of the i-th character (of the end, for i = Len + 1): one
\* byte for each character before it, and one more for each of two bytes
ByteOffset(chars, i) ==
    (i - 1) + Cardinality({j \in 1..(i - 1) : chars[j] = "U+00E9"})

\* a String: its characters, and the byte offset of each and of the end
Utf8(chars) ==
    [chars |-> chars, offset |-> [i \in 1..(Len(chars) + 1) |-> ByteOffset(chars, i)]]

\* source.len()
ByteLen(source) == source.offset[Len(source.chars) + 1]

\* the String of a sequence of characters
RECURSIVE Str(_)
Str(chars) == IF chars = << >> THEN "" ELSE chars[1] \o Str(Tail(chars))

ScanError(message) == [k |-> "Err", message |-> message]

\* Option<char>
SomeChar(c) == [k |-> "Some", v |-> c]
NoChar == [k |-> "None"]

\* source.chars().nth(i).unwrap()
nth_unwrap(source, i) ==
    IF i < Len(source.chars) THEN SomeChar(source.chars[i + 1])
    ELSE Panic("called Option::unwrap() on a None value")

\* &source[a..b]: the characters of the bytes a..b, a panic when a or b is
\* not the offset of a character or of the end, or when a > b
slice(source, a, b) ==
    LET boundaries == {i \in DOMAIN source.offset : source.offset[i] \in {a, b}}
        first == CHOOSE i \in boundaries : source.offset[i] = a
        last_ == CHOOSE i \in boundaries : source.offset[i] = b
    IN  IF a <= b /\ {a, b} \subseteq {source.offset[i] : i \in boundaries}
        THEN Ok(SubSeq(source.chars, first, last_ - 1))
        ELSE Panic("byte index is out of bounds or not a char boundary")

Digits == {"0", "1", "2", "3", "4", "5", "6", "7", "8", "9"}
Letters ==
    {"a", "b", "c", "d", "e", "f", "g", "h", "i", "j", "k", "l", "m", "n", "o",
     "p", "q", "r", "s", "t", "u", "v", "w", "x", "y", "z",
     "A", "B", "C", "D", "E", "F", "G", "H", "I", "J", "K", "L", "M", "N", "O",
     "P", "Q", "R", "S", "T", "U", "V", "W", "X", "Y", "Z"}

is_digit(c) == c \in Digits
is_alpha(c) == c \in Letters \/ c = "_"
is_alphanumeric_letters(c) == is_digit(c) \/ c \in Letters
is_alphanumeric(c) == is_digit(c) \/ is_alpha(c)

match_reserved(str) ==
    CASE str = "and" -> Some("And") [] str = "class" -> Some("Class")
      [] str = "else" -> Some("Else") [] str = "false" -> Some("False")
      [] str = "for" -> Some("For") [] str = "fn" -> Some("Fn")
      [] str = "if" -> Some("If") [] str = "nil" -> Some("Nil")
      [] str = "or" -> Some("Or") [] str = "print" -> Some("Print")
      [] str = "return" -> Some("Return") [] str = "super" -> Some("Super")
      [] str = "this" -> Some("This") [] str = "true" -> Some("True")
      [] str = "let" -> Some("Let") [] str = "while" -> Some("While")
      [] OTHER -> None

\* the value of a run of digits
RECURSIVE DigitsValue(_)
DigitsValue(chars) ==
    LET c == chars[Len(chars)]
        DigitValue ==
            CASE c = "0" -> 0 [] c = "1" -> 1 [] c = "2" -> 2 [] c = "3" -> 3
              [] c = "4" -> 4 [] c = "5" -> 5 [] c = "6" -> 6 [] c = "7" -> 7
              [] c = "8" -> 8 [] c = "9" -> 9
    IN  IF chars = << >> THEN 0
        ELSE 10 * DigitsValue(SubSeq(chars, 1, Len(chars) - 1)) + DigitValue

RECURSIVE Pow10(_)
Pow10(k) == IF k = 0 THEN 1 ELSE 10 * Pow10(k - 1)

\* whether parse::<f64>() accepts the text (of digits and dots)
is_f64(chars) ==
    /\ \A i \in 1..Len(chars) : chars[i] \in Digits \cup {"."}
    /\ \E i \in 1..Len(chars) : chars[i] \in Digits
    /\ Cardinality({i \in 1..Len(chars) : chars[i] = "."}) <= 1

\* lexeme.parse::<f64>() of digits or digits `.` digits: the integer when the
\* value has no fractional part, its fraction in lowest terms otherwise
parse_f64(chars) ==
    LET dot == {i \in 1..Len(chars) : chars[i] = "."}
        d == CHOOSE i \in dot : TRUE
        f == Frac(DigitsValue(SubSeq(chars, 1, d - 1)) * Pow10(Len(chars) - d)
                  + DigitsValue(SubSeq(chars, d + 1, Len(chars))),
                  Pow10(Len(chars) - d))
    IN  IF dot = {} THEN DigitsValue(chars)
        ELSE IF f.den = 1 THEN f.num ELSE [num |-> f.num, den |-> f.den]

\* token.rs, enum Literal
TokenLiteral_String(s) == [l |-> "String", s |-> s]

Scanner_new(source) ==
    [source |-> source, start |-> 0, current |-> 0, line |-> 1,
     out |-> << >>, log |-> << >>]

Scanner_is_at_end(s) == s.current >= ByteLen(s.source)

\* get_token: the lexeme is source[start..current]
get_token(s, token_type, literal) ==
    Bind(slice(s.source, s.start, s.current), LAMBDA lexeme :
      IF lexeme.k # "Ok" THEN lexeme
      ELSE Ok([token_type |-> token_type, lexeme |-> Str(lexeme.v),
               literal |-> literal, line |-> s.line]))

get_token_simple(s, token_type) == get_token(s, token_type, None)

\* look(look_ahead); peek is look(0)
look(s, look_ahead) ==
    IF s.current + look_ahead >= ByteLen(s.source) THEN NoChar
    ELSE nth_unwrap(s.source, s.current + look_ahead)

Scanner_peek(s) == look(s, 0)

\* advance: the character read, and the scanner after it
Scanner_advance(s) ==
    [c |-> nth_unwrap(s.source, s.current), s |-> [s EXCEPT !.current = @ + 1]]

\* advance_if(condition)
advance_if(s, condition) ==
    LET current_char == nth_unwrap(s.source, s.current)
    IN  IF Scanner_is_at_end(s) THEN [b |-> Ok(FALSE), s |-> s]
        ELSE IF current_char.k = "Panic" THEN [b |-> current_char, s |-> s]
        ELSE IF current_char.v # condition THEN [b |-> Ok(FALSE), s |-> s]
        ELSE [b |-> Ok(TRUE), s |-> [s EXCEPT !.current = @ + 1]]

\* self.line += 1
newline_uncounted(s) == s
newline(s) == [s EXCEPT !.line = @ + 1]

\* the `while let Some(t) = self.peek()` of scan_string
RECURSIVE scan_string_loop(_)
scan_string_loop(self) ==
    Bind(self, LAMBDA s :
      LET t == Scanner_peek(s)
      IN  IF t.k = "Panic" THEN [r |-> t, s |-> s]
          ELSE IF t.k = "None" THEN [r |-> Ok(None), s |-> s]
          ELSE IF t.v = "\"" THEN [r |-> Ok(None), s |-> s]
          ELSE scan_string_loop(
                 Scanner_advance(IF t.v = "\n" THEN newline(s) ELSE s).s))

scan_string(self) ==
    Bind(scan_string_loop(self), LAMBDA x :
      IF x.r.k # "Ok" THEN x
      ELSE IF Scanner_is_at_end(x.s)
           THEN [r |-> ScanError("Unterminated string"), s |-> x.s]
      ELSE Bind(slice(x.s.source, x.s.start + 1, x.s.current), LAMBDA inner :
             IF inner.k # "Ok" THEN [r |-> inner, s |-> x.s]
             ELSE LET s1 == [x.s EXCEPT !.out = Append(@, "string:" \o Str(inner.v))]
                      a == Scanner_advance(s1)
                      t == get_token(a.s, "String", Some(TokenLiteral_String(Str(inner.v))))
                  IN  IF a.c.k # "Some" THEN [r |-> a.c, s |-> s1]
                      ELSE IF t.k # "Ok" THEN [r |-> t, s |-> a.s]
                      ELSE [r |-> Ok(Some(t.v)), s |-> a.s]))

\* the `while let Some(c) = self.peek()` of scan_identifier
RECURSIVE scan_identifier_loop(_)
scan_identifier_loop(self) ==
    Bind(self, LAMBDA s :
      LET c == Scanner_peek(s)
      IN  IF c.k = "Panic" THEN [r |-> c, s |-> s]
          ELSE IF c.k = "None" THEN [r |-> Ok(None), s |-> s]
          ELSE IF ~is_alphanumeric(c.v) THEN [r |-> Ok(None), s |-> s]
          ELSE scan_identifier_loop(Scanner_advance(s).s))

\* the `while let Some(c) = self.peek()` of scan_number, run twice
RECURSIVE scan_digits(_)
scan_digits(self) ==
    Bind(self, LAMBDA s :
      LET c == Scanner_peek(s)
      IN  IF c.k = "Panic" THEN [r |-> c, s |-> s]
          ELSE IF c.k = "None" THEN [r |-> Ok(None), s |-> s]
          ELSE IF ~is_digit(c.v) THEN [r |-> Ok(None), s |-> s]
          ELSE scan_digits(Scanner_advance(s).s))

scan_identifier(self) ==
    Bind(scan_identifier_loop([self EXCEPT !.out = Append(@, "scanning identifier")]),
         LAMBDA x :
      IF x.r.k # "Ok" THEN x
      ELSE Bind(slice(x.s.source, x.s.start, x.s.current), LAMBDA lexeme :
             IF lexeme.k # "Ok" THEN [r |-> lexeme, s |-> x.s]
             ELSE LET reserved_token == match_reserved(Str(lexeme.v))
                      s1 == [x.s EXCEPT !.out = Append(@, "scanned " \o Str(lexeme.v))]
                  IN  IF reserved_token # None
                      THEN [r |-> Ok(Some(get_token_simple(x.s, reserved_token[1]).v)),
                            s |-> x.s]
                      ELSE [r |-> Ok(Some(get_token_simple(s1, "Identifier").v)),
                            s |-> s1]))

\* the fractional part of scan_number: `.` is consumed only before a digit
scan_fraction_greedy(self) ==
    Bind(self, LAMBDA s :
      LET dot == Scanner_peek(s)
      IN  IF dot.k = "Panic" THEN [r |-> dot, s |-> s]
          ELSE IF dot.k = "None" THEN [r |-> Ok(None), s |-> s]
          ELSE IF dot.v # "." THEN [r |-> Ok(None), s |-> s]
          ELSE scan_digits(Scanner_advance(s).s))
scan_fraction(self) ==
    Bind(self, LAMBDA s :
      LET dot == Scanner_peek(s)
          c == look(s, 1)
      IN  IF dot.k = "Panic" THEN [r |-> dot, s |-> s]
          ELSE IF dot.k = "None" THEN [r |-> Ok(None), s |-> s]
          ELSE IF dot.v # "." THEN [r |-> Ok(None), s |-> s]
          ELSE IF c.k = "Panic" THEN [r |-> c, s |-> s]
          ELSE IF c.k = "None" THEN [r |-> Ok(None), s |-> s]
          ELSE IF ~is_digit(c.v) THEN [r |-> Ok(None), s |-> s]
          ELSE scan_digits(Scanner_advance(s).s))

scan_number(self) ==
    Bind(scan_digits(self), LAMBDA x :
      IF x.r.k # "Ok" THEN x
      ELSE Bind(scan_fraction(x.s), LAMBDA y :
             IF y.r.k # "Ok" THEN y
             ELSE Bind(slice(y.s.source, y.s.start, y.s.current), LAMBDA lexeme :
                    IF lexeme.k # "Ok" THEN [r |-> lexeme, s |-> y.s]
                    ELSE IF ~is_f64(lexeme.v)
                         THEN [r |-> Panic("called Result::unwrap() on an Err value"),
                               s |-> y.s]
                    ELSE [r |-> Ok(Some(get_token(y.s, "Number",
                                     Some(TokenLiteral_Number(parse_f64(lexeme.v)))).v)),
                          s |-> y.s])))

\* the body of a `//` comment: up to the end of the line or of the source
RECURSIVE scan_comment(_)
scan_comment(self) ==
    Bind(self, LAMBDA s :
      LET c == Scanner_peek(s)
      IN  IF c.k = "Panic" THEN [r |-> c, s |-> s]
          ELSE IF c.k = "None" THEN [r |-> Ok(None), s |-> s]
          ELSE IF c.v = "\n" THEN [r |-> Ok(None), s |-> s]
          ELSE scan_comment(Scanner_advance(s).s))

\* the kind of a token of one character, or of two when `=` followed
simple_token_type(c, followed) ==
    CASE c = "(" -> "LeftParen" [] c = ")" -> "RightParen"
      [] c = "{" -> "LeftBrace" [] c = "}" -> "RightBrace"
      [] c = "," -> "Comma" [] c = "." -> "Dot"
      [] c = "-" -> "Minus" [] c = "+" -> "Plus"
      [] c = ";" -> "Semicolon" [] c = "*" -> "Star"
      [] c = "!" -> IF followed THEN "BangEqual" ELSE "Bang"
      [] c = "=" -> IF followed THEN "EqualEqual" ELSE "Equal"
      [] c = "<" -> IF followed THEN "LessEqual" ELSE "Less"
      [] c = ">" -> IF followed THEN "GreaterEqual" ELSE "Greater"

\* Ok(Some(token)) of a token that takes no literal
emit_simple(s, token_type) ==
    Bind(get_token_simple(s, token_type), LAMBDA t :
      IF t.k # "Ok" THEN [r |-> t, s |-> s] ELSE [r |-> Ok(Some(t.v)), s |-> s])

scan_token(self) ==
    Bind(Scanner_advance(self), LAMBDA a :
      IF a.c.k # "Some" THEN [r |-> a.c, s |-> self]
      ELSE LET c == a.c.v
               s == a.s
           IN  CASE c \in {"(", ")", "{", "}", ",", ".", "-", "+", ";", "*"} ->
                      emit_simple(s, simple_token_type(c, FALSE))
                 [] c \in {"!", "=", "<", ">"} ->
                      Bind(advance_if(s, "="), LAMBDA m :
                        IF m.b.k # "Ok" THEN [r |-> m.b, s |-> m.s]
                        ELSE emit_simple(m.s, simple_token_type(c, m.b.v)))
                 [] c = "/" ->
                      Bind(advance_if(s, "/"), LAMBDA m :
                        IF m.b.k # "Ok" THEN [r |-> m.b, s |-> m.s]
                        ELSE IF m.b.v THEN scan_comment(m.s)
                        ELSE emit_simple(m.s, "Slash"))
                 [] c \in {" ", "\r", "\t"} -> [r |-> Ok(None), s |-> s]
                 [] c = "\n" -> [r |-> Ok(None), s |-> newline(s)]
                 [] c = "\"" -> scan_string(s)
                 [] OTHER ->
                      IF is_digit(c) THEN scan_number(s)
                      ELSE IF is_alpha(c) THEN scan_identifier(s)
                      ELSE [r |-> ScanError("Unexpected character: " \o c), s |-> s])

\* the main loop of Scanner::scan_tokens; each iteration is recorded in log
RECURSIVE scan_tokens_loop(_, _)
scan_tokens_loop(self, tokens) ==
    Bind(self, LAMBDA s0 :
      IF Scanner_is_at_end(s0) THEN [r |-> Ok(tokens), s |-> s0]
      ELSE Bind(scan_token([s0 EXCEPT !.start = s0.current]), LAMBDA x :
             LET s == [x.s EXCEPT !.log = Append(@,
                         [ev |-> "scan", start |-> x.s.start, current |-> x.s.current,
                          line |-> x.s.line, r |-> x.r])]
             IN  IF x.r.k # "Ok" THEN [r |-> x.r, s |-> s]
                 ELSE scan_tokens_loop(s, tokens \o x.r.v)))

\* pub fn scan_tokens
scan_tokens(source) == scan_tokens_loop(Scanner_new(Utf8(source)), << >>)

---------------------------------------------------------------------------
(* The printer of expressions (expressions.rs, impl Display), writing the
   characters of its text *)

\* str.chars() of the texts the printer writes
Chars(str) ==
    CASE str = "*" -> << "*" >> [] str = "/" -> << "/" >>
      [] str = "+" -> << "+" >> [] str = "-" -> << "-" >>
      [] str = ">" -> << ">" >> [] str = ">=" -> << ">", "=" >>
      [] str = "<" -> << "<" >> [] str = "<=" -> << "<", "=" >>
      [] str = "!=" -> << "!", "=" >> [] str = "==" -> << "=", "=" >>
      [] str = "and" -> << "a", "n", "d" >> [] str = "or" -> << "o", "r" >>
      [] str = "!" -> << "!" >>
      [] str = "nil" -> << "n", "i", "l" >>
      [] str = "true" -> << "t", "r", "u", "e" >>
      [] str = "false" -> << "f", "a", "l", "s", "e" >>
      [] str = "group" -> << "g", "r", "o", "u", "p" >>
      [] str = "a" -> << "a" >>
      [] str = "" -> << >>

UnaryOp_fmt(op) == CASE op = "Minus" -> "-" [] op = "Not" -> "!"

DigitChar(d) ==
    CASE d = 0 -> "0" [] d = 1 -> "1" [] d = 2 -> "2" [] d = 3 -> "3" [] d = 4 -> "4"
      [] d = 5 -> "5" [] d = 6 -> "6" [] d = 7 -> "7" [] d = 8 -> "8" [] d = 9 -> "9"

\* `{}` of an f64 without fractional part
RECURSIVE f64_fmt(_)
f64_fmt(n) ==
    IF n < 0 THEN << "-" >> \o f64_fmt(-n)
    ELSE IF n < 10 THEN << DigitChar(n) >>
    ELSE f64_fmt(n \div 10) \o << DigitChar(n % 10) >>

Literal_fmt(literal) ==
    CASE literal.l = "Nil" -> Chars("nil")
      [] literal.l = "Number" -> f64_fmt(literal.n)
      [] literal.l = "String" -> << "\"" >> \o Chars(literal.s) \o << "\"" >>
      [] literal.l = "Bool" -> IF literal.b THEN Chars("true") ELSE Chars("false")

RECURSIVE Expr_fmt(_)
Expr_fmt(expr) ==
    CASE expr.e = "Binary" ->
           << "(" >> \o Expr_fmt(expr.left) \o << " " >> \o Chars(BinaryOp_fmt(expr.op))
           \o << " " >> \o Expr_fmt(expr.right) \o << ")" >>
      [] expr.e = "Unary" ->
           << "(" >> \o Chars(UnaryOp_fmt(expr.op)) \o Expr_fmt(expr.expr) \o << ")" >>
      [] expr.e = "Literal" -> Literal_fmt(expr)
      [] expr.e = "Grouping" ->
           << "(" >> \o Chars("group") \o << " " >> \o Expr_fmt(expr.expr) \o << ")" >>

---------------------------------------------------------------------------
(* SpecScan: the scanner on its own, and after the printer.  One source is
   scanned, or one expression is printed, scanned and parsed *)

\* the pieces sources are made of
ScanPieces ==
    {<< "\"" >>, << "\n" >>, << "\n", "\"" >>, << "/", "/" >>, << "1" >>, << "." >>,
     << ".", "5" >>, << "o", "r" >>, << "c", "h", "i", "d" >>, << "l", "e", "t" >>,
     << "_" >>, << " " >>, << "U+00E9" >>}

RECURSIVE Flatten(_)
Flatten(pieces) == IF pieces = << >> THEN << >> ELSE pieces[1] \o Flatten(Tail(pieces))

\* the expressions without identifiers of at most d levels of operators
RECURSIVE PrintExprsOf(_)
PrintExprsOf(d) ==
    LET literals == {Lit_Nil, Lit_Bool(TRUE), Lit_Number(12), Lit_String("a")}
    IN  IF d = 0 THEN literals
        ELSE LET E == PrintExprsOf(d - 1)
             IN  E \cup {Unary(op, e) : op \in UnaryOps, e \in E}
                   \cup {Grouping(e) : e \in E}
                   \cup {Binary(e, op, l) : e \in E, op \in {"Plus", "LessEqual"},
                                            l \in literals}

\* token.rs:336-338
Scan ==
    /\ last = NoOp
    /\ \E source \in {Flatten(pieces) : pieces \in SeqsUpTo(ScanPieces, MaxPieces)} :
         \E x \in {scan_tokens(source)} :
             /\ last' = [op |-> "scan", source |-> source]
             /\ result' = x.r
             /\ out' = x.s.out
             /\ log' = x.s.log
    /\ UNCHANGED <<env, nexec>>

\* parse(scan_tokens(expr.to_string()))
RoundTrip ==
    /\ last = NoOp
    /\ \E expr \in PrintExprsOf(MaxPrintDepth) :
         \E x \in {scan_tokens(Expr_fmt(expr))} :
             /\ last' = [op |-> "roundtrip", expr |-> expr, source |-> Expr_fmt(expr),
                         scanned |-> x.r]
             /\ log' = x.s.log
             /\ IF x.r.k = "Ok"
                THEN \E y \in {parse(x.r.v)} :
                         /\ result' = y.r
                         /\ out' = x.s.out \o y.p.out
                ELSE /\ result' = x.r
                     /\ out' = x.s.out
    /\ UNCHANGED <<env, nexec>>

NextScan == Scan \/ RoundTrip

SpecScan == Init /\ [][NextScan]_vars

---------------------------------------------------------------------------
(* Claims about the Environment, checked under SpecEnv *)

\* the scopes of e that bind name
ScopesWith(e, name) == {i \in 1..Len(e) : name \in DOMAIN e[i]}
MaxOf(S) == CHOOSE i \in S : \A j \in S : j <= i

\* C8: the environment always holds at least one scope: after any sequence
\* of new_child, pop, define, get and assign the scope stack is non-empty.
C8_AlwaysOneScope == Len(env) >= 1

\* C9: get(name) returns the value bound in the innermost scope that
\* contains name, returns the 'Undefined variable' error exactly when no
\* scope contains name, and leaves the environment unchanged.
C9_GetInnermostFirst ==
    last.op = "get" =>
        LET S == ScopesWith(last.before, last.name)
        IN  /\ env = last.before
            /\ (S = {}) <=> (result.k = "Err")
            /\ S = {} => result.message = UndefinedVariable(last.name)
            /\ S # {} => result = [k |-> "Ok", v |-> last.before[MaxOf(S)][last.name]]

\* a get of a name bound in two scopes to different values
C9_Witness ==
    /\ last.op = "get"
    /\ \E i, j \in ScopesWith(last.before, last.name) :
          i < j /\ last.before[i][last.name] # last.before[j][last.name]

\* C10: assign(name, v) overwrites name in the innermost scope that already
\* contains it and changes no other scope or binding; when no scope contains
\* name it returns an error and the environment is unchanged.
C10_AssignFrame ==
    last.op = "assign" =>
        LET b == last.before
            S == ScopesWith(b, last.name)
        IN  /\ S = {} => result.k = "Err" /\ env = b
            /\ S # {} =>
                  /\ result.k = "Ok"
                  /\ Len(env) = Len(b)
                  /\ \A i \in 1..Len(b) :
                        /\ DOMAIN env[i] = DOMAIN b[i]
                        /\ \A n \in DOMAIN b[i] :
                              env[i][n] = IF i = MaxOf(S) /\ n = last.name
                                          THEN last.value ELSE b[i][n]

\* an assign to a name bound in two scopes, with a value that differs from both
C10_Witness ==
    /\ last.op = "assign"
    /\ \E i, j \in ScopesWith(last.before, last.name) :
          /\ i < j
          /\ last.before[i][last.name] # last.value
          /\ last.before[j][last.name] # last.value
          /\ DOMAIN last.before[j] # {last.name}

\* C11: define(name, v) inserts or overwrites name in the innermost scope
\* only: every outer scope is unchanged, the innermost scope keeps its other
\* bindings, and a get(name) right after the define returns v.
C11_DefineInnermost ==
    last.op = "define" =>
        LET b == last.before
        IN  /\ Len(env) = Len(b)
            /\ \A i \in 1..(Len(b) - 1) : env[i] = b[i]
            /\ get(env, last.name) = [k |-> "Ok", v |-> last.value]
            /\ DOMAIN env[Len(env)] = DOMAIN b[Len(b)] \cup {last.name}
            /\ \A n \in DOMAIN b[Len(b)] \ {last.name} : env[Len(env)][n] = b[Len(b)][n]

---------------------------------------------------------------------------
(* Claims about the evaluator, checked under Spec *)

Events(kind) == {i \in 1..Len(log) : log[i].ev = kind}

\* a function value without the history it carries
Plain(r) ==
    IF r.k = "Ok" /\ r.v.t = "Function"
    THEN Ok([t |-> "Function", parameters |-> r.v.parameters, body |-> r.v.body])
    ELSE r

\* C1: scoping of a call is lexical: a reference to a name inside a function
\* body is an 'Undefined variable' error or resolves to a scope visible from
\* where the function was declared (or opened inside the body), never to a
\* scope of the caller.
C1_LexicalScoping ==
    \A i \in Events("read") :
        (log[i].depth >= 1 /\ log[i].ctx = "body") =>
            (log[i].r.k = "RuntimeError" \/ log[i].sid \in log[i].lex)

\* C2: every argument of a call is evaluated in the caller's environment:
\* its value is the one the argument expression has in the environment of
\* the call expression, whatever parameters were bound before it.
C2_ArgsInCallerEnv ==
    \A i \in Events("arg") :
        Plain(log[i].r) =
            Plain(evaluate_expression(log[i].expr, log[i].caller,
                                      [out |-> << >>, log |-> << >>],
                                      [TopLevel EXCEPT !.depth = log[i].depth,
                                           !.sids = [j \in 1..Len(log[i].caller) |-> 0]]).r)

\* C3: a Return statement executed inside a function body, with or without
\* an expression, ends the invocation: no statement follows it and the call
\* evaluates to the returned value (Nil when the expression is absent).
C3_ReturnAborts ==
    \A i \in Events("return") :
        log[i].depth >= 1 =>
            \E j \in Events("callend") :
                /\ j > i
                /\ log[j].depth = log[i].depth
                /\ log[j].r = Ok(log[i].v)
                /\ \A m \in (i + 1)..(j - 1) : log[m].ev # "stmt"

\* C4: a return signal raised in a function body is consumed by exactly the
\* nearest enclosing call: it passes through the Blocks and Ifs of the body,
\* the call evaluates to the carried value, and no call lets the signal
\* through to its caller.
C4_ReturnConsumedAtCall ==
    /\ \A i \in Events("return") :
         (log[i].signal /\ log[i].depth >= 1) =>
            \E j \in Events("callend") :
                /\ j > i
                /\ log[j].depth = log[i].depth
                /\ log[j].r = Ok(log[i].v)
                /\ \A m \in (i + 1)..(j - 1) : log[m].ev \in {"blockexit", "stmtend"}
    /\ \A j \in Events("callend") : log[j].r.k # "Return"

\* an inner call returns from inside nested Blocks and an If, and the outer
\* function goes on with its next statement
C4_Witness ==
    \E i \in Events("return"), j \in Events("stmt") :
        /\ log[i].signal /\ log[i].depth = 2 /\ log[i].nest >= 3
        /\ j > i /\ log[j].depth = 1

\* C5: a return signal never escapes the interpreter: a return statement at
\* the top level, with or without a value, ends interpret with a runtime
\* error; it neither crashes nor completes silently.
C5_TopLevelReturnIsError ==
    (\E i \in Events("return") : log[i].depth = 0) => result.k = "Err"

VisibleNames(e) == UNION {DOMAIN e[i] : i \in 1..Len(e)}

\* C6: after a Block, however it was left, the code that executed it sees
\* an environment with as many scopes and the same visible names as before.
C6_ScopeContainment ==
    \A i \in Events("blockexit") :
        /\ Len(log[i].after) = Len(log[i].before)
        /\ VisibleNames(log[i].after) = VisibleNames(log[i].before)

\* one statement in which a Block that declared a new name completes, one
\* is unwound by a return signal and one fails with a runtime error
C6_Witness ==
    \A how \in {"Ok", "Return", "RuntimeError"} :
        \E i \in Events("blockexit") :
            /\ log[i].how = how
            /\ log[i].declared \ VisibleNames(log[i].before) # {}

\* C7: inside a block that declares `let x = v` every later read of x in
\* that block yields v; after the block exits a read of x yields what it
\* yielded before the block (the enclosing value, or 'Undefined variable').
C7_Shadowing ==
    /\ \A i \in Events("vardec"), j \in Events("read") :
         ( /\ i < j
           /\ log[i].blk # 0
           /\ log[j].blk = log[i].blk
           /\ log[j].name = log[i].name
           /\ \A m \in (i + 1)..(j - 1) :
                ~(log[m].ev = "vardec" /\ log[m].blk = log[i].blk
                                       /\ log[m].name = log[i].name) )
         => log[j].r = Ok(log[i].v)
    /\ \A i \in Events("blockexit") :
         \A x \in log[i].declared : get(log[i].after, x) = get(log[i].before, x)


\* C12: a call whose callee is not a function fails with 'Expected
\* function'; a call of a function with a different number of arguments
\* than parameters fails with the arity error before any argument is
\* evaluated, any parameter bound or the body run; so a call that succeeds
\* was given exactly as many arguments as the function has parameters.
C12_ArityInvariant ==
    \A i \in Events("callexpr") :
        /\ log[i].t # "Function" => log[i].r = RuntimeError("Expected function", 0)
        /\ (log[i].t = "Function" /\ log[i].r # StackOverflow) =>
             LET c == log[log[i].sid]
             IN  /\ c.ev = "call"
                 /\ c.nparams # c.nargs =>
                      /\ log[i].r = RuntimeError(
                           "Expected number of arguments to match number of parameters", 0)
                      /\ i = log[i].sid + 1
                 /\ log[i].r.k = "Ok" =>
                      /\ c.nparams = c.nargs
                      /\ \A k \in 1..c.nargs :
                           \E a \in Events("arg") :
                               /\ log[a].sid = log[i].sid
                               /\ log[a].k = k
                               /\ log[a].r.k = "Ok"

\* a function of two parameters called with one argument
C12_Witness ==
    \E i \in Events("callexpr") :
        /\ log[i].t = "Function"
        /\ log[i].r.k = "RuntimeError"
        /\ log[log[i].sid].ev = "call"
        /\ log[log[i].sid].nparams = 2
        /\ log[log[i].sid].nargs = 1

IsPrefix(s, t) == Len(s) <= Len(t) /\ SubSeq(t, 1, Len(s)) = s

\* what the run of a statement can leave in the log once a runtime error has
\* been raised: only the unwinding of the constructs the error passes through
Unwinding == {"stmtend", "blockexit", "callend", "callexpr", "arg", "binary"}

C13_ErrorEndsStatement ==
    last.op = "execute" =>
        /\ IsPrefix(last.outBefore, out)
        /\ \A i \in Events("stmtend") :
             log[i].k = "RuntimeError" =>
                 \A j \in (i + 1)..Len(log) :
                     /\ log[j].ev \in Unwinding
                     /\ log[j].ev = "stmtend" => log[j].k = "RuntimeError"
        /\ result.k = "Err" =>
             /\ env = last.before
             /\ log[Len(log)].ev = "stmtend"
             /\ log[Len(log)].k = "RuntimeError"
             /\ log[Len(log)].depth = 0

\* C13: interpret stops at the first statement that raises a runtime error
\* and returns it: nothing is executed after the error, inside the
\* statement or after it; the output written and the global definitions
\* made before the error remain.
C13_NoRecovery ==
    /\ [](C13_ErrorEndsStatement)
    /\ [][result.k = "Ok"]_vars

\* let x = 1; { let y = 2; print x; } print y;  has printed x and failed on y
C13_Witness ==
    /\ nexec = 3
    /\ result = [k |-> "Err", message |-> "Undefined variable 'y'. at line 1"]
    /\ Len(out) = 1
    /\ "x" \in DOMAIN env[1]
    /\ "y" \notin DOMAIN env[1]


---------------------------------------------------------------------------
(* Claims about single evaluations, checked under SpecEval *)

ArithOps == {"Plus", "Minus", "Multiply", "Divide"}

\* C14: + - * / yield a Number only when both operand values are Numbers;
\* any other pair is 'Invalid operands for <op>'.  For / the operand check
\* comes first: Number / Number(0) is 'Division by zero', a non-Number
\* operand with divisor 0 is 'Invalid operands for /'.
C14_ArithmeticOperands ==
    \A i \in Events("binary") :
        LET b == log[i]
            nums == b.l.v.t = "Number" /\ b.r.v.t = "Number"
            zero == b.op = "Divide" /\ b.r.v = Number(0)
        IN  (b.op \in ArithOps /\ b.l.k = "Ok" /\ b.r.k = "Ok") =>
                /\ ~nums => b.res = RuntimeError("Invalid operands for "
                                                 \o BinaryOp_fmt(b.op), 0)
                /\ (nums /\ zero) => b.res = RuntimeError("Division by zero", 0)
                /\ (nums /\ ~zero) => (b.res.k = "Ok" /\ b.res.v.t = "Number")

\* a String divided by the Number 0
C14_Witness ==
    \E i \in Events("binary") :
        /\ log[i].op = "Divide"
        /\ log[i].l = Ok(String("a"))
        /\ log[i].r = Ok(Number(0))
        /\ log[i].res = RuntimeError("Invalid operands for /", 0)

Truthy(v) == v # Nil /\ v # Bool(FALSE)

\* C16: Nil is false, Bool(b) is b, every other value is true; `!v` is
\* Bool(not truthy(v)); If(c, t, e) executes t exactly when truthy(c),
\* otherwise e when present and nothing when absent, never both.
C16_OneTruthiness ==
    /\ \A i \in Events("unary") :
         log[i].op = "Not" => log[i].res = Ok(Bool(~Truthy(log[i].v)))
    /\ (last.op = "statement" /\ last.stmt.s = "If") =>
         \A i \in Events("if") :
             LET printed == {log[j].v : j \in Events("print")}
             IN  /\ Cardinality(Events("print")) <= 1
                 /\ printed =
                      IF Truthy(log[i].c) THEN {String("t")}
                      ELSE IF last.stmt.else_branch # None THEN {String("f")}
                      ELSE {}
                 /\ Len(out) = Cardinality(printed)

\* `if (0) print "t"; else print "f";` takes the then branch, and so does a
\* function value: some condition that is neither Nil nor a Bool was tested
C16_Witness ==
    /\ last.op = "statement"
    /\ last.stmt.s = "If"
    /\ \E i \in Events("if") : log[i].c = Number(0)
    /\ \E j \in Events("print") : log[j].v = String("t")

\* C17: Print writes exactly one line, the human representation of the
\* value: nil, true/false, an integer without `.0`, a string without quotes.
C17_PrintHuman ==
    (last.op = "statement" /\ last.stmt.s = "Print" /\ last.r.k = "Ok") =>
        \E i \in Events("print") : out = << stringify(log[i].v) >>

\* C18: evaluate_expression returns a value or a runtime error for every
\* expression of the data model; no variant aborts the evaluator.
C18_Total ==
    last.op = "evaluate" => last.r.k \in {"Ok", "RuntimeError"}


---------------------------------------------------------------------------
(* Claims about the parser, checked under SpecParse *)

TypesOf(tokens) == [i \in 1..Len(tokens) |-> tokens[i].token_type]

\* the precedence level of the operator at the root of an expression:
\* equality 1, comparison 2, term 3, factor 4, prefix 5, anything else 6
Level(expr) ==
    CASE expr.e = "Binary" ->
           ( CASE expr.op \in {"EqualEqual", "NotEqual"} -> 1
               [] expr.op \in {"Greater", "GreaterEqual", "Less", "LessEqual"} -> 2
               [] expr.op \in {"Plus", "Minus"} -> 3
               [] expr.op \in {"Multiply", "Divide"} -> 4 )
      [] expr.e = "Unary" -> 5
      [] OTHER -> 6

\* every operand of a binary operator is of a level at least as high on the
\* left and strictly higher on the right; the operand of a prefix operator
\* is a prefix or a primary expression
RECURSIVE WellNested(_)
WellNested(expr) ==
    CASE expr.e = "Binary" ->
           /\ Level(expr.left) >= Level(expr)
           /\ Level(expr.right) > Level(expr)
           /\ WellNested(expr.left)
           /\ WellNested(expr.right)
      [] expr.e = "Unary" -> Level(expr.expr) >= 5 /\ WellNested(expr.expr)
      [] OTHER -> TRUE

\* the operands and operators of an expression from left to right
RECURSIVE Yield(_)
Yield(expr) ==
    CASE expr.e = "Binary" ->
           Yield(expr.left)
           \o << CHOOSE t \in {"BangEqual", "EqualEqual", "Greater", "GreaterEqual",
                               "Less", "LessEqual", "Minus", "Plus", "Slash", "Star"} :
                     operator_of(t) = expr.op >>
           \o Yield(expr.right)
      [] expr.e = "Unary" ->
           << IF expr.op = "Not" THEN "Bang" ELSE "Minus" >> \o Yield(expr.expr)
      [] expr.e = "Literal" /\ expr.l = "Number" -> << expr.n >>
      [] OTHER -> << "other" >>

YieldOf(tokens) ==
    [i \in 1..Len(tokens) |->
        IF tokens[i].token_type = "Number" THEN tokens[i].literal[1].n
        ELSE tokens[i].token_type]

\* operands, each after any number of prefix operators, separated by binary
\* operators
RECURSIVE Alternates(_, _, _)
Alternates(types, i, operand) ==
    IF i > Len(types) THEN ~operand
    ELSE IF operand
         THEN \/ types[i] = "Number" /\ Alternates(types, i + 1, FALSE)
              \/ types[i] \in {"Bang", "Minus"} /\ Alternates(types, i + 1, TRUE)
    ELSE /\ types[i] \in {"Plus", "Minus", "Star", "Less", "EqualEqual"}
         /\ Alternates(types, i + 1, TRUE)

\* C19: the parser encodes precedence and associativity: a sequence of
\* operands and operators parses whole, to the tree whose operands and
\* operators are those of the sequence in its order, where a higher level
\* operator is below an adjacent lower level one, equal levels nest to the
\* left, and prefix operators nest to the right and bind tightest.
C19_Precedence ==
    last.op = "parse" =>
        /\ result.k = "Ok" =>
             /\ WellNested(result.v)
             /\ Yield(result.v) = YieldOf(SubSeq(last.tokens, 1, last.current))
        /\ Alternates(TypesOf(last.tokens), 1, TRUE) =>
             /\ result.k = "Ok"
             /\ last.current = Len(last.tokens)

\* 3 + 4 * 2 has parsed as 3 + (4 * 2)
C19_Witness ==
    /\ last.op = "parse"
    /\ TypesOf(last.tokens) = << "Number", "Plus", "Number", "Star", "Number" >>
    /\ result = Ok(Binary(Lit_Number(3), "Plus",
                          Binary(Lit_Number(4), "Multiply", Lit_Number(2))))

\* C20: `let` IDENT `;` parses to VarDec(name, no initializer), and executing
\* it binds the name to Nil.
C20_LetWithoutInitializer ==
    (last.op = "run" /\ TypesOf(last.tokens) = << "Let", "Identifier", "Semicolon" >>)
        => /\ last.parsed = Ok(<< S_VarDec("x", None) >>)
           /\ result.k = "Ok"
           /\ get(env, "x") = [k |-> "Ok", v |-> Nil]


Count(types, t) == Cardinality({i \in 1..Len(types) : types[i] = t})

\* a token the grammar requires is missing from a vector of token types: the
\* `;`, `)` or `}` that ends a construct, the identifier after `let`, `fn`
\* or a `,` of a parameter list, the expression after `=` or a `,`
MissingToken(types) ==
    \/ Len(types) > 0 /\ types[Len(types)] \notin {"Semicolon", "RightBrace"}
    \/ Count(types, "LeftParen") > Count(types, "RightParen")
    \/ Count(types, "LeftBrace") > Count(types, "RightBrace")
    \/ \E i \in 1..Len(types) :
         \/ /\ types[i] \in {"Let", "Fn"}
            /\ (i = Len(types) \/ types[i + 1] # "Identifier")
         \/ /\ types[i] \in {"Equal", "Comma"}
            /\ (i = Len(types) \/ types[i + 1] \in {"Semicolon", "RightParen"})

\* C21: parse_stmt returns a ParseError, never a statement list, for every
\* token vector in which a required token is missing; on every vector it
\* returns a statement list or a ParseError.
C21_MissingTokenIsError ==
    last.op = "run" =>
        /\ last.parsed.k \in {"Ok", "Err"}
        /\ MissingToken(TypesOf(last.tokens)) => last.parsed.k = "Err"

---------------------------------------------------------------------------
(* Claims about the scanner and the printer, checked under SpecScan *)

\* C22: scanning and parsing the text that the printer writes for an
\* expression without identifiers yields that expression again.
C22_RoundTrip ==
    last.op = "roundtrip" => result = Ok(last.expr)

\* the position of the first `"` after position i, 0 when there is none
ClosingQuote(chars, i) ==
    LET Q == {j \in (i + 1)..Len(chars) : chars[j] = "\""}
    IN  IF Q = {} THEN 0 ELSE CHOOSE j \in Q : \A k \in Q : j <= k

\* the steps of the main loop that began at a `"`
StringSteps ==
    {i \in 1..Len(log) :
        /\ log[i].ev = "scan"
        /\ log[i].start < Len(last.source)
        /\ last.source[log[i].start + 1] = "\""}

\* C23: a string without its closing quote makes scan_tokens return the
\* error Unterminated string instead of tokens; a closed string gives one
\* String token whose literal is the characters between the quotes and whose
\* lexeme runs from the opening to the closing quote.
C23_Strings ==
    last.op = "scan" =>
        \A i \in StringSteps :
            LET open == log[i].start + 1
                close == ClosingQuote(last.source, open)
            IN  IF close = 0
                THEN /\ log[i].r = ScanError("Unterminated string")
                     /\ result = ScanError("Unterminated string")
                ELSE log[i].r = Ok(Some(
                         [token_type |-> "String",
                          lexeme |-> Str(SubSeq(last.source, open, close)),
                          literal |-> Some(TokenLiteral_String(
                                         Str(SubSeq(last.source, open + 1, close - 1)))),
                          line |-> log[i].line]))

\* the steps of the main loop that produced a token
TokenSteps == {i \in 1..Len(log) : log[i].ev = "scan" /\ log[i].r.k = "Ok" /\ log[i].r.v # None}

\* the characters a step of the main loop consumed
Consumed(i) == SubSeq(last.source, log[i].start + 1, log[i].current)

\* the number of line feeds among the first n characters of the source
LineFeeds(n) == Cardinality({j \in 1..n : last.source[j] = "\n"})

\* C24: in the tokens scan_tokens returns, a token that contains no line
\* feed carries line 1 + the number of line feeds before it, those that end
\* comments and those inside earlier strings included; the lines of the tokens
\* never decrease.
C24_Lines ==
    (last.op = "scan" /\ result.k = "Ok") =>
        /\ result.v = [k \in 1..Len(result.v) |->
                          log[CHOOSE i \in TokenSteps :
                                Cardinality({j \in TokenSteps : j <= i}) = k].r.v[1]]
        /\ Len(result.v) = Cardinality(TokenSteps)
        /\ \A i \in TokenSteps :
               (\A j \in 1..Len(Consumed(i)) : Consumed(i)[j] # "\n")
                   => log[i].r.v[1].line = 1 + LineFeeds(log[i].start)
        /\ \A i, j \in 1..Len(log) : i <= j => log[i].line <= log[j].line

\* a Number token on line 2, after a string that holds a line feed
C24_Witness ==
    /\ last.op = "scan"
    /\ result.k = "Ok"
    /\ \E i \in TokenSteps :
         /\ log[i].r.v[1].token_type = "Number"
         /\ log[i].r.v[1].line = 2
         /\ \E j \in TokenSteps : j < i /\ log[j].r.v[1].token_type = "String"
                                  /\ \E k \in 1..Len(Consumed(j)) : Consumed(j)[k] = "\n"

\* the value of digits `.` digits, times the denominator den
Scaled(chars, den) ==
    LET d == CHOOSE j \in 1..Len(chars) : chars[j] = "."
    IN  [num |-> (DigitsValue(SubSeq(chars, 1, d - 1)) * Pow10(Len(chars) - d)
                  + DigitsValue(SubSeq(chars, d + 1, Len(chars)))) * den,
         den |-> Pow10(Len(chars) - d)]

\* C25: in the tokens scan_tokens returns, a Number token begins at a digit
\* and every token that begins at a digit is a Number; its lexeme is the
\* longest run of digits, followed by `.` and a run of digits when a digit
\* follows the `.`, and its literal is the value of that text.  `1.` is
\* Number(1), Dot; `1.5.5` is Number(1.5), Dot, Number(5).
C25_Numbers ==
    (last.op = "scan" /\ result.k = "Ok") =>
        /\ \A i \in TokenSteps :
               LET c == Consumed(i)
                   token == log[i].r.v[1]
                   n == Len(c)
                   dots == {j \in 1..n : c[j] = "."}
                   next == log[i].current + 1
               IN  /\ token.token_type = "Number" <=> c[1] \in Digits
                   /\ token.token_type = "Number" =>
                         /\ token.lexeme = Str(c)
                         /\ c[1] \in Digits /\ c[n] \in Digits
                         /\ \A j \in 1..n : c[j] \in Digits \cup {"."}
                         /\ Cardinality(dots) <= 1
                         /\ next <= Len(last.source) => last.source[next] \notin Digits
                         /\ (dots = {} /\ next < Len(last.source) /\ last.source[next] = ".")
                               => last.source[next + 1] \notin Digits
                         /\ token.literal # None /\ token.literal[1].l = "Number"
                         /\ IF dots = {} THEN token.literal[1].n = DigitsValue(c)
                            ELSE IF \A j \in 1..n : j > (CHOOSE d \in dots : TRUE) => c[j] = "0"
                            THEN token.literal[1].n = DigitsValue(SubSeq(c, 1, (CHOOSE d \in dots : TRUE) - 1))
                            ELSE Scaled(c, token.literal[1].n.den).num
                                   = token.literal[1].n.num * Scaled(c, 1).den
        /\ last.source = << "1", "." >> =>
               /\ TypesOf(result.v) = << "Number", "Dot" >>
               /\ result.v[1].literal = Some(TokenLiteral_Number(1))
        /\ last.source = << "1", ".", "5", ".", "5" >> =>
               /\ TypesOf(result.v) = << "Number", "Dot", "Number" >>
               /\ result.v[1].literal = Some(TokenLiteral_Number([num |-> 3, den |-> 2]))
               /\ result.v[3].literal = Some(TokenLiteral_Number(5))

\* `1.5.5` was scanned: a `.` that a digit follows, once after a run of
\* digits and once after a fraction
C25_Witness ==
    /\ last.op = "scan"
    /\ last.source = << "1", ".", "5", ".", "5" >>
    /\ result.k = "Ok"
    /\ Len(result.v) = 3

\* the 16 reserved words and the kind of each
ReservedWords ==
    {<< "and", "And" >>, << "class", "Class" >>, << "else", "Else" >>,
     << "false", "False" >>, << "for", "For" >>, << "fn", "Fn" >>, << "if", "If" >>,
     << "nil", "Nil" >>, << "or", "Or" >>, << "print", "Print" >>,
     << "return", "Return" >>, << "super", "Super" >>, << "this", "This" >>,
     << "true", "True" >>, << "let", "Let" >>, << "while", "While" >>}

WordChars == Letters \cup Digits \cup {"_"}

\* C26: in the tokens scan_tokens returns, a token that begins at a letter
\* or `_` is the longest run of letters, digits and `_` from there; its kind
\* is that of the reserved word its whole lexeme is, and Identifier when the
\* lexeme is none of the 16; no other token is an Identifier or a keyword.
\* `orchid` and `let_` are one Identifier each.
C26_Words ==
    (last.op = "scan" /\ result.k = "Ok") =>
        /\ \A i \in TokenSteps :
               LET c == Consumed(i)
                   token == log[i].r.v[1]
                   next == log[i].current + 1
               IN  IF c[1] \in Letters \cup {"_"}
                   THEN /\ \A j \in 1..Len(c) : c[j] \in WordChars
                        /\ next <= Len(last.source) => last.source[next] \notin WordChars
                        /\ token.lexeme = Str(c)
                        /\ token.literal = None
                        /\ \A w \in ReservedWords :
                              token.token_type = w[2] <=> token.lexeme = w[1]
                        /\ token.token_type = "Identifier"
                              <=> \A w \in ReservedWords : token.lexeme # w[1]
                   ELSE /\ token.token_type # "Identifier"
                        /\ \A w \in ReservedWords : token.token_type # w[2]
        /\ last.source \in {<< "o", "r", "c", "h", "i", "d" >>, << "l", "e", "t", "_" >>} =>
               /\ TypesOf(result.v) = << "Identifier" >>
               /\ result.v[1].lexeme = Str(last.source)
        /\ last.source = << "o", "r" >> => TypesOf(result.v) = << "Or" >>

\* `let_` was scanned: a reserved word followed by one more word character
C26_Witness ==
    /\ last.op = "scan"
    /\ last.source = << "l", "e", "t", "_" >>
    /\ result.k = "Ok"
    /\ Len(result.v) = 1

\* C27: on every source, characters of several bytes included, scan_tokens
\* returns a token list or a ScanError; each step of its main loop consumes
\* at least one character and never goes past the end of the source, and the
\* lexeme of each token is exactly the characters its step consumed.
C27_Total ==
    last.op = "scan" =>
        /\ result.k \in {"Ok", "Err"}
        /\ \A i \in 1..Len(log) :
               /\ log[i].start < log[i].current
               /\ log[i].current <= Len(last.source)
        /\ \A i \in TokenSteps : log[i].r.v[1].lexeme = Str(Consumed(i))

====
